---- MODULE Spec2Model ----
(***************************************************************************)
(* Tile manifest and mosaic compositing engine.                            *)
(*                                                                         *)
(*   converter.py   split_into_tiles, write_manifest, main (tiling part)   *)
(*   restitcher.py  tiles_from_manifest, compose_region, stitch_full,      *)
(*                  extract_bounds, crop_by_latlon                         *)
(*                                                                         *)
(* Rasters are functions from pixel coordinates to pixel values.  The      *)
(* source raster gives every pixel a distinct non-zero value, so that a    *)
(* pixel of an output identifies the source position it was copied from;   *)
(* zero is the value of a freshly allocated canvas.  Geographic            *)
(* coordinates are whole degrees and the linear mapping is computed with   *)
(* exact rational arithmetic (numerator over a positive denominator).      *)
(***************************************************************************)
EXTENDS Integers, Sequences, FiniteSets, TLC

\* ---------------------------------------------------------------- bounds
MaxW == 3
MaxH == 2
MaxT == 2
MaxMissing == 1

\* ------------------------------------------------------------ arithmetic
Min(a, b) == IF a <= b THEN a ELSE b
Max(a, b) == IF a >= b THEN a ELSE b

\* mutant of Ceil: the quotient is rounded down
CeilRoundingDown(n, d) == n \div d

\* math.floor and math.ceil of the rational n/d, d > 0
Floor(n, d) == n \div d
Ceil(n, d) == -((-n) \div d)

\* ---------------------------------------------------------------- rasters
Coords(w, h) == (0 .. (w - 1)) \X (0 .. (h - 1))

\* mutant of NewImage: the canvas is filled with white
NewImageWhite(w, h) == [w |-> w, h |-> h, px |-> [p \in Coords(w, h) |-> 255]]

\* Image.new(mode, (width, height)): every pixel holds the default value 0
NewImage(w, h) == [w |-> w, h |-> h, px |-> [p \in Coords(w, h) |-> 0]]

NoImage == NewImage(0, 0)

PixelAt(im, x, y) ==
    IF <<x, y>> \in DOMAIN im.px THEN im.px[<<x, y>>] ELSE 0

\* Image.crop(box): pixels of the box; positions outside the image read 0
Crop(im, box) ==
    LET l == box[1]
        t == box[2]
        w == Max(0, box[3] - box[1])
        h == Max(0, box[4] - box[2])
    IN  [w |-> w, h |-> h,
         px |-> [p \in Coords(w, h) |-> PixelAt(im, l + p[1], t + p[2])]]

\* Image.paste(fragment, (x, y)): the fragment overwrites the canvas pixels
\* it covers, clipped to the canvas
Paste(canvas, frag, at) ==
    [canvas EXCEPT !.px =
        [p \in DOMAIN canvas.px |->
            IF <<p[1] - at[1], p[2] - at[2]>> \in DOMAIN frag.px
            THEN frag.px[<<p[1] - at[1], p[2] - at[2]>>]
            ELSE canvas.px[p]]]

\* the decoded source raster: pixel (x, y) of a raster of width w
SourceImage(w, h) ==
    [w |-> w, h |-> h, px |-> [p \in Coords(w, h) |-> 1 + p[2] * w + p[1]]]

\* ------------------------------------------------------------------ paths
\* A path is a directory (sequence of components) and a file name (sequence
\* of character codes).
Root == <<"data">>
DirUnderRoot == <<"data", "tiles", "scene">>
DirOutsideRoot == <<"mnt", "tiles", "scene">>

NoRef == [dir |-> <<>>, name |-> <<>>]

Join(base, rel) == [dir |-> base \o rel.dir, name |-> rel.name]

IsPrefix(s, t) == Len(s) <= Len(t) /\ SubSeq(t, 1, Len(s)) = s

RECURSIVE Digits(_)
Digits(n) == IF n < 10 THEN <<48 + n>> ELSE Digits(n \div 10) \o <<48 + (n % 10)>>

RECURSIVE ZeroPad(_, _)
ZeroPad(s, width) == IF Len(s) >= width THEN s ELSE ZeroPad(<<48>> \o s, width)

\* f"_r{row:03d}_c{col:03d}" (the scene stem and the suffix are the same
\* for every tile of a scene)
TileName(row, col) ==
    <<95, 114>> \o ZeroPad(Digits(row), 3) \o <<95, 99>> \o ZeroPad(Digits(col), 3)

\* ------------------------------------------------------------------ state
VARIABLES
    img,            \* the decoded raster handed to the splitter
    tile_size,      \* the tile pitch asked for
    base_dir,       \* directory the tiles and the manifest are written to
    label,          \* label metadata loaded for the scene
    spc,            \* position of the converter's tiling of the scene
    top,            \* split_into_tiles: outer loop variable
    left,           \* split_into_tiles: inner loop variable
    count,          \* split_into_tiles: tiles saved so far
    tile_records,   \* split_into_tiles: records appended so far
    files,          \* storage: path -> raster of every tile file present
    manifest,       \* content of metadata.json and where it lies
    op,             \* entry point of the current composition request
    latlon,         \* crop_by_latlon: the requested geographic box
    bounds_px,      \* compose_region: the pixel rectangle
    cpc,            \* position / outcome of the composition request
    idx,            \* compose_region: index of the next tile of the manifest
    canvas,         \* compose_region: the output buffer
    probed,         \* paths whose existence the request has tested
    opened,         \* tile files the request has opened
    resolved,       \* paths tiles_from_manifest has yielded, in order
    out_dir,        \* whether the output's directory was created
    output,         \* the raster saved at output_path, NoImage if none
    mpc,            \* converter main(): position of the command-line run
    effects,        \* converter: directories made, programs run, images opened
    prev_output,    \* the raster the previous identical request saved
    other,          \* a second composition request running concurrently
    conv,           \* converter main(): the conversion loop over the JP2 files
    sup,            \* manage.py: processes, PID file and running invocations
    handler,        \* routes.py: a crop_scene / download_full request
    init_call       \* routes.py: the calls of initialize_dataset

splitVars == <<img, tile_size, base_dir, label, spc, top, left, count, tile_records>>
composeVars == <<op, latlon, bounds_px, cpc, idx, canvas, probed, opened, resolved,
                 out_dir, output>>
cliVars == <<mpc, effects>>
callVars == <<prev_output, other>>
sysVars == <<conv, sup, handler, init_call>>
vars == <<splitVars, files, manifest, composeVars, cliVars, callVars, sysVars>>

\* -------------------------------------------------- converter.py: splitter
\* mutant of TileBox: the last row and column are not truncated at the edge
TileBoxUnclamped(l, t, T, width, height) == <<l, t, l + T, t + T>>

\* the crop box of the tile whose top-left corner is (l, t)
TileBox(l, t, T, width, height) ==
    <<l, t, Min(l + T, width), Min(t + T, height)>>

\* tile_path.relative_to(root), or the absolute path when the tile does not
\* lie under root
LocationRefs(tile_path, root) ==
    IF IsPrefix(root, tile_path.dir)
    THEN [keys |-> {"relative_to_root"},
          relative_to_root |->
              [dir |-> SubSeq(tile_path.dir, Len(root) + 1, Len(tile_path.dir)),
               name |-> tile_path.name],
          absolute |-> NoRef]
    ELSE [keys |-> {"absolute"},
          relative_to_root |-> NoRef,
          absolute |-> tile_path]

\* the record appended for the tile at (l, t)
TileRecord(l, t, T, width, height, dir, root) ==
    LET box == TileBox(l, t, T, width, height)
        row == t \div T
        col == l \div T
        tile_path == [dir |-> dir, name |-> TileName(row, col)]
        refs == LocationRefs(tile_path, root)
    IN  [row |-> row, col |-> col, x |-> l, y |-> t,
         width |-> box[3] - l, height |-> box[4] - t,
         path |-> [dir |-> <<>>, name |-> tile_path.name],
         keys |-> refs.keys,
         relative_to_root |-> refs.relative_to_root,
         absolute |-> refs.absolute]

\* mutant of NextLeft: the inner range runs one step past the right edge
NextLeftPastEdge(l, T, width) == IF l + T <= width THEN l + T ELSE 0

\* the loop variables after the body ran at (t, l): the inner range continues,
\* or the outer range advances and the inner range restarts
NextLeft(l, T, width) == IF l + T < width THEN l + T ELSE 0
NextTop(t, l, T, width) == IF l + T < width THEN t ELSE t + T

\* split_into_tiles' tile_records as one value: the loops run from (t, l) on
RECURSIVE SplitFrom(_, _, _, _, _, _, _, _)
SplitFrom(t, l, T, width, height, dir, root, acc) ==
    IF t >= height \/ width <= 0
    THEN acc
    ELSE SplitFrom(NextTop(t, l, T, width), NextLeft(l, T, width), T, width, height,
                   dir, root,
                   Append(acc, TileRecord(l, t, T, width, height, dir, root)))

SplitRecords(width, height, T, dir, root) ==
    SplitFrom(0, 0, T, width, height, dir, root, <<>>)

\* label metadata: the keys of IMAGE_MAP_PROJECTION that load_label_metadata
\* copies and the crop reads; keys holds the ones the label carried
ExtentKeys == {"MINIMUM_LATITUDE", "MAXIMUM_LATITUDE",
               "WESTERNMOST_LONGITUDE", "EASTERNMOST_LONGITUDE"}

OffsetKeys == {"CENTER_LATITUDE", "CENTER_LONGITUDE", "LINE_PROJECTION_OFFSET",
               "SAMPLE_PROJECTION_OFFSET", "MAP_RESOLUTION"}

NoLabel ==
    [present |-> FALSE, has_projection |-> FALSE, keys |-> {},
     MINIMUM_LATITUDE |-> 0, MAXIMUM_LATITUDE |-> 0,
     WESTERNMOST_LONGITUDE |-> 0, EASTERNMOST_LONGITUDE |-> 0,
     CENTER_LATITUDE |-> 0, CENTER_LONGITUDE |-> 0, LINE_PROJECTION_OFFSET |-> 0,
     SAMPLE_PROJECTION_OFFSET |-> 0, MAP_RESOLUTION |-> 0]

SceneLabel ==
    [NoLabel EXCEPT !.present = TRUE, !.has_projection = TRUE, !.keys = ExtentKeys,
                    !.MINIMUM_LATITUDE = 1, !.MAXIMUM_LATITUDE = 4,
                    !.WESTERNMOST_LONGITUDE = 2, !.EASTERNMOST_LONGITUDE = 4]

\* a scene whose extent straddles the equator and the prime meridian
EquatorLabel ==
    [SceneLabel EXCEPT !.MINIMUM_LATITUDE = -2, !.MAXIMUM_LATITUDE = 2,
                       !.WESTERNMOST_LONGITUDE = -2, !.EASTERNMOST_LONGITUDE = 2]

\* a label without an IMAGE_MAP_PROJECTION object: subset() leaves {}
LabelNoProjection == [NoLabel EXCEPT !.present = TRUE]

\* a label whose projection lacks one of the extent keys
LabelLacking(k) == [SceneLabel EXCEPT !.keys = ExtentKeys \ {k}]

\* a label whose projection carries the offset and resolution keys only
OffsetLabel ==
    [NoLabel EXCEPT !.present = TRUE, !.has_projection = TRUE, !.keys = OffsetKeys,
                    !.CENTER_LATITUDE = 2, !.CENTER_LONGITUDE = 179,
                    !.LINE_PROJECTION_OFFSET = 1, !.SAMPLE_PROJECTION_OFFSET = 1,
                    !.MAP_RESOLUTION = 1]

Labels == {NoLabel, SceneLabel}

\* labels from which extract_bounds cannot take an extent
UnusableLabels == {NoLabel, LabelNoProjection, OffsetLabel}
                      \cup {LabelLacking(k) : k \in ExtentKeys}

NoManifest ==
    [exists |-> FALSE, dir |-> <<>>, keys |-> {},
     image_size |-> [width |-> 0, height |-> 0], tile_size |-> 0,
     tiles |-> <<>>, project_root |-> <<>>, label_metadata |-> NoLabel]

\* the manifest main() builds after split_into_tiles returned
BuildManifest(dir, size, T, records, root, lbl) ==
    [exists |-> TRUE, dir |-> dir,
     keys |-> {"image_size", "tile_size", "tiles", "project_root"}
              \cup (IF lbl.present THEN {"label_metadata"} ELSE {}),
     image_size |-> [width |-> size[1], height |-> size[2]],
     tile_size |-> T, tiles |-> records, project_root |-> root,
     label_metadata |-> lbl]

\* mutant of MainReject: the tile size is looked at after the conversion
MainRejectAfterConversion ==
    /\ spc = "idle"
    /\ mpc = "none"
    /\ tile_size <= 0
    /\ effects' = effects \cup {"tiles_root", "converter"}
    /\ mpc' = "exit1"
    /\ UNCHANGED <<splitVars, files, manifest, composeVars, callVars>>
    /\ UNCHANGED sysVars

\* main() with --tile-size <= 0: the error is printed and main returns 1
\* before tiles_root is created and before a converter is looked for or run
MainReject ==
    /\ spc = "idle"
    /\ mpc = "none"
    /\ tile_size <= 0
    /\ mpc' = "exit1"
    /\ UNCHANGED <<splitVars, files, manifest, composeVars, effects, callVars>>
    /\ UNCHANGED sysVars

\* main() with a positive --tile-size: tiles_root is created and the scene
\* converted by an external converter; split_into_tiles comes next
MainConvert ==
    /\ spc = "idle"
    /\ mpc = "none"
    /\ tile_size > 0
    /\ effects' = effects \cup {"tiles_root", "converter"}
    /\ mpc' = "converted"
    /\ UNCHANGED <<splitVars, files, manifest, composeVars, callVars>>
    /\ UNCHANGED sysVars

\* split_into_tiles is entered: tile_size is checked, the tile directory
\* (tiles_root/<stem>, under the data root) is created and the image opened
SplitStart ==
    /\ spc = "idle"
    /\ mpc # "exit1"
    /\ tile_size > 0
    /\ base_dir' = DirUnderRoot
    /\ top' = 0
    /\ left' = 0
    /\ count' = 0
    /\ tile_records' = <<>>
    /\ spc' = IF img.h > 0 /\ img.w > 0 THEN "loop" ELSE "returned"
    /\ effects' = effects \cup {"base_dir", "source_opened"}
    /\ UNCHANGED <<img, tile_size, label, files, manifest, composeVars, mpc, callVars>>
    /\ UNCHANGED sysVars

\* tile_size <= 0: ValueError before any work
SplitReject ==
    /\ spc = "idle"
    /\ mpc # "exit1"
    /\ tile_size <= 0
    /\ spc' = "rejected"
    /\ UNCHANGED <<img, tile_size, base_dir, label, top, left, count, tile_records,
                   files, manifest, composeVars, cliVars, callVars>>
    /\ UNCHANGED sysVars

\* one iteration of the inner loop: crop, save, count, append the record
SplitStep ==
    /\ spc = "loop"
    /\ LET rec == TileRecord(left, top, tile_size, img.w, img.h, base_dir, Root)
           tile == Crop(img, TileBox(left, top, tile_size, img.w, img.h))
           tile_path == Join(base_dir, rec.path)
       IN  /\ files' = (tile_path :> tile) @@ files
           /\ count' = count + 1
           /\ tile_records' = Append(tile_records, rec)
    /\ left' = NextLeft(left, tile_size, img.w)
    /\ top' = NextTop(top, left, tile_size, img.w)
    /\ spc' = IF NextTop(top, left, tile_size, img.w) < img.h THEN "loop" ELSE "returned"
    /\ UNCHANGED <<img, tile_size, base_dir, label, manifest, composeVars, cliVars, callVars>>
    /\ UNCHANGED sysVars

\* tile.save raises: the exception leaves split_into_tiles and main() reports
\* that tiling failed
SplitSaveFail ==
    /\ spc = "loop"
    /\ spc' = "failed"
    /\ UNCHANGED <<img, tile_size, base_dir, label, top, left, count, tile_records,
                   files, manifest, composeVars, cliVars, callVars>>
    /\ UNCHANGED sysVars

\* mutant of WriteManifest: the manifest is written after a failed tiling too
WriteManifestAfterFailure ==
    /\ spc \in {"returned", "failed"}
    /\ manifest' = BuildManifest(base_dir, <<img.w, img.h>>, tile_size, tile_records,
                                 Root, label)
    /\ spc' = "committed"
    /\ UNCHANGED <<img, tile_size, base_dir, label, top, left, count, tile_records,
                   files, composeVars, cliVars, callVars>>
    /\ UNCHANGED sysVars

\* main(): split_into_tiles returned, the manifest is built and written
WriteManifest ==
    /\ spc = "returned"
    /\ manifest' = BuildManifest(base_dir, <<img.w, img.h>>, tile_size, tile_records,
                                 Root, label)
    /\ spc' = "committed"
    /\ UNCHANGED <<img, tile_size, base_dir, label, top, left, count, tile_records,
                   files, composeVars, cliVars, callVars>>
    /\ UNCHANGED sysVars

\* the converter is run again on the same scene and tile directory, with any
\* tile size, after a run that wrote its manifest or failed part-way: the
\* tile files and the metadata.json of the earlier runs are still in place
Rerun ==
    /\ spc \in {"committed", "failed"}
    /\ \E T \in 1 .. MaxT : tile_size' = T
    /\ spc' = "idle"
    /\ UNCHANGED <<img, base_dir, label, top, left, count, tile_records,
                   files, manifest, composeVars, cliVars, callVars>>
    /\ UNCHANGED sysVars

\* ------------------------------------------------------------ restitcher.py
\* load_manifest: the file exists and holds the required keys
ManifestLoads(m) ==
    m.exists /\ {"image_size", "tile_size", "tiles"} \subseteq m.keys

\* mutant of IsEmptyRegion: the extents are not floored at zero
IsEmptyRegionSigned(l, t, r, b) == r - l = 0 \/ b - t = 0

\* compose_region's test of the requested rectangle
IsEmptyRegion(l, t, r, b) == Max(0, r - l) = 0 \/ Max(0, b - t) = 0

\* tiles_from_manifest: the first candidate, relative to the manifest's directory
BaseCandidate(tile, m) == Join(m.dir, tile.path)

\* tiles_from_manifest: the candidate tested when the first one is absent
FallbackCandidate(tile, m) ==
    IF "project_root" \in m.keys /\ "relative_to_root" \in tile.keys
    THEN Join(m.project_root, tile.relative_to_root)
    ELSE IF "absolute" \in tile.keys
         THEN tile.absolute
         ELSE BaseCandidate(tile, m)

\* tiles_from_manifest for one tile: the path yielded, or none, and the
\* paths tested on the way
Resolve(tile, m, existing) ==
    IF BaseCandidate(tile, m) \in existing
    THEN [found |-> TRUE, path |-> BaseCandidate(tile, m),
          tested |-> {BaseCandidate(tile, m)}]
    ELSE [found |-> FallbackCandidate(tile, m) \in existing,
          path |-> FallbackCandidate(tile, m),
          tested |-> {BaseCandidate(tile, m), FallbackCandidate(tile, m)}]

\* intersection of the requested rectangle with a tile's rectangle
Intersection(rect, tile) ==
    <<Max(rect[1], tile.x), Max(rect[2], tile.y),
      Min(rect[3], tile.x + tile.width), Min(rect[4], tile.y + tile.height)>>

\* mutant of Skipped: a tile touching the rectangle along an edge is kept
SkippedStrict(inter) == inter[1] > inter[3] \/ inter[2] > inter[4]

Skipped(inter) == inter[1] >= inter[3] \/ inter[2] >= inter[4]

\* mutant of CropBox: the box is left in mosaic coordinates
CropBoxGlobal(inter, tile) == inter

CropBox(inter, tile) ==
    <<inter[1] - tile.x, inter[2] - tile.y, inter[3] - tile.x, inter[4] - tile.y>>

\* mutant of PasteBox: the offsets are swapped
PasteBoxSwapped(inter, rect) == <<inter[2] - rect[2], inter[1] - rect[1]>>

PasteBox(inter, rect) == <<inter[1] - rect[1], inter[2] - rect[2]>>

\* mutant of ExtractBounds: an absent projection value is read as zero
ExtractBoundsDefaulting(m) ==
    [ok |-> "label_metadata" \in m.keys /\ m.label_metadata.present,
     min_lat |-> 0, max_lat |-> 0, west_lon |-> 0, east_lon |-> 0]

\* extract_bounds: the label metadata, its projection and the four extent
\* values must be there (coerce_float(None) raises ValueError)
ExtractBounds(m) ==
    IF ~("label_metadata" \in m.keys /\ m.label_metadata.present)
    THEN [ok |-> FALSE, min_lat |-> 0, max_lat |-> 0, west_lon |-> 0, east_lon |-> 0]
    ELSE IF ~m.label_metadata.has_projection
    THEN [ok |-> FALSE, min_lat |-> 0, max_lat |-> 0, west_lon |-> 0, east_lon |-> 0]
    ELSE IF ~(ExtentKeys \subseteq m.label_metadata.keys)
    THEN [ok |-> FALSE, min_lat |-> 0, max_lat |-> 0, west_lon |-> 0, east_lon |-> 0]
    ELSE [ok |-> TRUE,
          min_lat |-> Min(m.label_metadata.MINIMUM_LATITUDE,
                          m.label_metadata.MAXIMUM_LATITUDE),
          max_lat |-> Max(m.label_metadata.MINIMUM_LATITUDE,
                          m.label_metadata.MAXIMUM_LATITUDE),
          west_lon |-> m.label_metadata.WESTERNMOST_LONGITUDE,
          east_lon |-> m.label_metadata.EASTERNMOST_LONGITUDE]

\* mutant of Clamp: the lower bound is not applied
ClampUpperOnly(lo, hi, v) == Min(hi, v)

\* mutant of Clamp: the value is passed through
ClampNone(lo, hi, v) == v

\* max(lo, min(hi, v))
Clamp(lo, hi, v) == Max(lo, Min(hi, v))

\* mutant of LatToY: the axis is not flipped
LatToYUnflipped(lat, bounds, height) == (lat - bounds.min_lat) * height

\* lat_to_y and lon_to_x as exact fractions: the numerators over lat_span
\* and lon_span
LatToY(lat, bounds, height) == (bounds.max_lat - lat) * height
LonToX(lon, bounds, width) == (lon - bounds.west_lon) * width

\* crop_by_latlon up to the call of compose_region: the outcome and the
\* rectangle handed over
GeoToPixel(m, req) ==
    LET bounds == ExtractBounds(m)
        lat_span == bounds.max_lat - bounds.min_lat
        lon_span == bounds.east_lon - bounds.west_lon
        height == m.image_size.height
        width == m.image_size.width
        min_lat == Clamp(bounds.min_lat, bounds.max_lat, Min(req[1], req[3]))
        max_lat == Clamp(bounds.min_lat, bounds.max_lat, Max(req[1], req[3]))
        min_lon == Clamp(bounds.west_lon, bounds.east_lon, Min(req[2], req[4]))
        max_lon == Clamp(bounds.west_lon, bounds.east_lon, Max(req[2], req[4]))
        t == Clamp(0, height * lat_span, LatToY(max_lat, bounds, height))
        b == Clamp(0, height * lat_span, LatToY(min_lat, bounds, height))
        l == Clamp(0, width * lon_span, LonToX(min_lon, bounds, width))
        r == Clamp(0, width * lon_span, LonToX(max_lon, bounds, width))
        rect == <<Floor(l, lon_span), Floor(t, lat_span),
                  Ceil(r, lon_span), Ceil(b, lat_span)>>
    IN  IF ~bounds.ok
        THEN [status |-> "MissingProjectionMetadata", rect |-> <<0, 0, 0, 0>>]
        ELSE IF lat_span <= 0 \/ lon_span <= 0
        THEN [status |-> "InvalidExtent", rect |-> <<0, 0, 0, 0>>]
        ELSE IF max_lat - min_lat <= 0 \/ max_lon - min_lon <= 0
        THEN [status |-> "OutOfBounds", rect |-> <<0, 0, 0, 0>>]
        ELSE IF rect[1] >= rect[3] \/ rect[2] >= rect[4]
        THEN [status |-> "EmptyRegion", rect |-> rect]
        ELSE [status |-> "ok", rect |-> rect]

\* ------------------------------------------- the same mapping in floats
\* Python computes crop_by_latlon in binary floating point. A float is kept
\* as a fraction <<n, d>>, d > 0; every subtraction, division and
\* multiplication rounds its exact result to FloatBits significant bits, the
\* nearest value, ties to even (the exponent range is not limited).
FloatBits == 3

RECURSIVE Pow2(_)
Pow2(k) == IF k = 0 THEN 1 ELSE 2 * Pow2(k - 1)

Rat(n) == <<n, 1>>
RatLess(x, y) == x[1] * y[2] < y[1] * x[2]
RatMin(x, y) == IF RatLess(y, x) THEN y ELSE x
RatMax(x, y) == IF RatLess(x, y) THEN y ELSE x

\* the integer nearest to a/d (a >= 0, d > 0), ties to even
RoundHalfEven(a, d) ==
    LET q == a \div d
        r == a % d
    IN  IF 2 * r < d THEN q
        ELSE IF 2 * r > d THEN q + 1
        ELSE IF q % 2 = 0 THEN q ELSE q + 1

\* a/d scaled by up/down into [2^(FloatBits-1), 2^FloatBits), then rounded
RECURSIVE RoundPos(_, _, _, _)
RoundPos(a, d, up, down) ==
    IF a >= Pow2(FloatBits) * d THEN RoundPos(a, 2 * d, 2 * up, down)
    ELSE IF a < Pow2(FloatBits - 1) * d THEN RoundPos(2 * a, d, up, 2 * down)
    ELSE <<RoundHalfEven(a, d) * up, down>>

\* the float nearest to the fraction x
ToFloat(x) ==
    IF x[1] = 0 THEN <<0, 1>>
    ELSE IF x[1] > 0 THEN RoundPos(x[1], x[2], 1, 1)
    ELSE LET r == RoundPos(-x[1], x[2], 1, 1) IN <<-r[1], r[2]>>

FSub(x, y) == ToFloat(<<x[1] * y[2] - y[1] * x[2], x[2] * y[2]>>)
FMul(x, y) == ToFloat(<<x[1] * y[1], x[2] * y[2]>>)
\* y > 0
FDiv(x, y) == ToFloat(<<x[1] * y[2], x[2] * y[1]>>)

\* max(lo, min(hi, v)) on floats
FClamp(lo, hi, v) == RatMax(lo, RatMin(hi, v))

\* crop_by_latlon up to the call of compose_region, every operation rounded
\* as the interpreter rounds it; req is a tuple of four floats
GeoToPixelFloat(m, req) ==
    LET bounds == ExtractBounds(m)
        b_min_lat == Rat(bounds.min_lat)
        b_max_lat == Rat(bounds.max_lat)
        b_west == Rat(bounds.west_lon)
        b_east == Rat(bounds.east_lon)
        lat_span == FSub(b_max_lat, b_min_lat)
        lon_span == FSub(b_east, b_west)
        height == Rat(m.image_size.height)
        width == Rat(m.image_size.width)
        min_lat == FClamp(b_min_lat, b_max_lat, RatMin(req[1], req[3]))
        max_lat == FClamp(b_min_lat, b_max_lat, RatMax(req[1], req[3]))
        min_lon == FClamp(b_west, b_east, RatMin(req[2], req[4]))
        max_lon == FClamp(b_west, b_east, RatMax(req[2], req[4]))
        lat_to_y(lat) == FMul(FDiv(FSub(b_max_lat, lat), lat_span), height)
        lon_to_x(lon) == FMul(FDiv(FSub(lon, b_west), lon_span), width)
        t == FClamp(Rat(0), height, lat_to_y(max_lat))
        b == FClamp(Rat(0), height, lat_to_y(min_lat))
        l == FClamp(Rat(0), width, lon_to_x(min_lon))
        r == FClamp(Rat(0), width, lon_to_x(max_lon))
        rect == <<Floor(l[1], l[2]), Floor(t[1], t[2]), Ceil(r[1], r[2]), Ceil(b[1], b[2])>>
    IN  IF ~bounds.ok
        THEN [status |-> "MissingProjectionMetadata", rect |-> <<0, 0, 0, 0>>]
        ELSE IF ~RatLess(Rat(0), lat_span) \/ ~RatLess(Rat(0), lon_span)
        THEN [status |-> "InvalidExtent", rect |-> <<0, 0, 0, 0>>]
        ELSE IF ~RatLess(Rat(0), FSub(max_lat, min_lat))
                \/ ~RatLess(Rat(0), FSub(max_lon, min_lon))
        THEN [status |-> "OutOfBounds", rect |-> <<0, 0, 0, 0>>]
        ELSE IF rect[1] >= rect[3] \/ rect[2] >= rect[4]
        THEN [status |-> "EmptyRegion", rect |-> rect]
        ELSE [status |-> "ok", rect |-> rect]

\* compose_region is entered with a rectangle: the region is tested and the
\* canvas allocated
EnterCompose(rect) ==
    /\ bounds_px' = rect
    /\ IF IsEmptyRegion(rect[1], rect[2], rect[3], rect[4])
       THEN /\ cpc' = "EmptyRegion"
            /\ UNCHANGED <<idx, canvas>>
       ELSE /\ cpc' = "loop"
            /\ idx' = 1
            /\ canvas' = NewImage(Max(0, rect[3] - rect[1]), Max(0, rect[4] - rect[2]))

\* rectangles a caller may ask for: inside the mosaic, reaching beyond it by
\* a pixel, of zero extent, and inverted by a pixel
PixelRects(width, height) ==
    {rect \in ((-1) .. (width + 1)) \X ((-1) .. (height + 1))
                 \X ((-1) .. (width + 1)) \X ((-1) .. (height + 1)) :
        rect[3] >= rect[1] - 1 /\ rect[4] >= rect[2] - 1}

\* geographic boxes a caller may ask for: whole degrees around the extent,
\* far enough beyond it for a box of positive area to lie wholly outside
GeoRequests(lbl) ==
    LET lats == (lbl.MINIMUM_LATITUDE - 2) .. (lbl.MAXIMUM_LATITUDE + 1)
        lons == (lbl.WESTERNMOST_LONGITUDE - 1) .. (lbl.EASTERNMOST_LONGITUDE + 2)
    IN  lats \X lons \X lats \X lons

\* main(): load_manifest fails, nothing else runs
LoadManifestFail ==
    /\ cpc = "idle"
    /\ ~ManifestLoads(manifest)
    /\ cpc' = "ManifestError"
    /\ op' = "load"
    /\ UNCHANGED <<splitVars, cliVars, callVars, files, manifest, latlon, bounds_px, idx, canvas, probed,
                   opened, resolved, out_dir, output>>
    /\ UNCHANGED sysVars

\* main() with --crop-pixels: compose_region on the caller's rectangle
ComposeRegion ==
    /\ cpc = "idle"
    /\ ManifestLoads(manifest)
    /\ \E rect \in PixelRects(manifest.image_size.width, manifest.image_size.height) :
          EnterCompose(<<rect[1], rect[2], rect[3], rect[4]>>)
    /\ op' = "compose"
    /\ UNCHANGED <<splitVars, cliVars, callVars, files, manifest, latlon, probed, opened, resolved,
                   out_dir, output>>
    /\ UNCHANGED sysVars

\* stitch_full: compose_region on the whole mosaic
StitchFull ==
    /\ cpc = "idle"
    /\ ManifestLoads(manifest)
    /\ EnterCompose(<<0, 0, manifest.image_size.width, manifest.image_size.height>>)
    /\ op' = "stitch"
    /\ UNCHANGED <<splitVars, cliVars, callVars, files, manifest, latlon, probed, opened, resolved,
                   out_dir, output>>
    /\ UNCHANGED sysVars

\* crop_by_latlon: the box is mapped to a rectangle and compose_region entered,
\* or a ValueError ends the request
CropByLatLon ==
    /\ cpc = "idle"
    /\ ManifestLoads(manifest)
    /\ \E req \in GeoRequests(SceneLabel) :
          LET g == GeoToPixel(manifest, <<req[1], req[2], req[3], req[4]>>)
          IN  /\ latlon' = <<req[1], req[2], req[3], req[4]>>
              /\ IF g.status = "ok"
                 THEN EnterCompose(g.rect)
                 ELSE /\ cpc' = g.status
                      /\ UNCHANGED <<bounds_px, idx, canvas>>
    /\ op' = "crop"
    /\ UNCHANGED <<splitVars, cliVars, callVars, files, manifest, probed, opened, resolved, out_dir, output>>
    /\ UNCHANGED sysVars

\* degrees a caller may ask for in floats: whole degrees on both sides of
\* the equator and of the prime meridian, and the smallest positive fraction
\* of a degree the model's requests carry
FloatDegrees == {<<-1, 1>>, <<0, 1>>, <<1, Pow2(FloatBits)>>, <<1, 1>>}

\* crop_by_latlon computed in floats
CropByLatLonFloat ==
    /\ cpc = "idle"
    /\ ManifestLoads(manifest)
    /\ \E lat1 \in FloatDegrees, lon1 \in FloatDegrees,
          lat2 \in FloatDegrees, lon2 \in FloatDegrees :
          LET g == GeoToPixelFloat(manifest, <<lat1, lon1, lat2, lon2>>)
          IN  /\ latlon' = <<lat1, lon1, lat2, lon2>>
              /\ IF g.status = "ok"
                 THEN EnterCompose(g.rect)
                 ELSE /\ cpc' = g.status
                      /\ UNCHANGED <<bounds_px, idx, canvas>>
    /\ op' = "crop"
    /\ UNCHANGED <<splitVars, cliVars, callVars, files, manifest, probed, opened, resolved, out_dir, output>>
    /\ UNCHANGED sysVars

\* mutant of ComposeStep: the cropped fragment is saved over the tile file
ComposeStepOverwritingTile ==
    /\ cpc = "loop"
    /\ "tiles" \in manifest.keys
    /\ idx <= Len(manifest.tiles)
    /\ LET tile == manifest.tiles[idx]
           res == Resolve(tile, manifest, DOMAIN files)
           inter == Intersection(bounds_px, tile)
       IN  /\ res.found
           /\ probed' = probed \cup res.tested
           /\ resolved' = Append(resolved, res.path)
           /\ IF Skipped(inter)
              THEN UNCHANGED <<opened, canvas, files>>
              ELSE /\ opened' = opened \cup {res.path}
                   /\ canvas' = Paste(canvas,
                                      Crop(files[res.path], CropBox(inter, tile)),
                                      PasteBox(inter, bounds_px))
                   /\ files' = [files EXCEPT ![res.path] =
                                   Crop(files[res.path], CropBox(inter, tile))]
    /\ idx' = idx + 1
    /\ UNCHANGED <<splitVars, cliVars, callVars, manifest, op, latlon, bounds_px, cpc,
                   out_dir, output>>
    /\ UNCHANGED sysVars

\* one iteration of compose_region's loop: tiles_from_manifest yields the
\* next tile; it is skipped, or opened, cropped and pasted
ComposeStep ==
    /\ cpc = "loop"
    /\ "tiles" \in manifest.keys
    /\ idx <= Len(manifest.tiles)
    /\ LET tile == manifest.tiles[idx]
           res == Resolve(tile, manifest, DOMAIN files)
           inter == Intersection(bounds_px, tile)
       IN  /\ res.found
           /\ probed' = probed \cup res.tested
           /\ resolved' = Append(resolved, res.path)
           /\ IF Skipped(inter)
              THEN UNCHANGED <<opened, canvas>>
              ELSE /\ opened' = opened \cup {res.path}
                   /\ canvas' = Paste(canvas,
                                      Crop(files[res.path], CropBox(inter, tile)),
                                      PasteBox(inter, bounds_px))
    /\ idx' = idx + 1
    /\ UNCHANGED <<splitVars, cliVars, callVars, files, manifest, op, latlon, bounds_px, cpc, out_dir, output>>
    /\ UNCHANGED sysVars

\* mutant of ComposeMissing: the unresolved tile is skipped
ComposeSkipMissing ==
    /\ cpc = "loop"
    /\ "tiles" \in manifest.keys
    /\ idx <= Len(manifest.tiles)
    /\ LET res == Resolve(manifest.tiles[idx], manifest, DOMAIN files)
       IN  /\ ~res.found
           /\ probed' = probed \cup res.tested
    /\ idx' = idx + 1
    /\ UNCHANGED <<splitVars, cliVars, callVars, files, manifest, op, latlon, bounds_px, cpc, canvas,
                   opened, resolved, out_dir, output>>
    /\ UNCHANGED sysVars

\* tiles_from_manifest raises FileNotFoundError for the next tile: the
\* exception leaves compose_region
ComposeMissing ==
    /\ cpc = "loop"
    /\ "tiles" \in manifest.keys
    /\ idx <= Len(manifest.tiles)
    /\ LET res == Resolve(manifest.tiles[idx], manifest, DOMAIN files)
       IN  /\ ~res.found
           /\ probed' = probed \cup res.tested
    /\ cpc' = "MissingTile"
    /\ UNCHANGED <<splitVars, cliVars, callVars, files, manifest, op, latlon, bounds_px, idx, canvas,
                   opened, resolved, out_dir, output>>
    /\ UNCHANGED sysVars

\* the loop is over: ensure_directory and canvas.save
ComposeSave ==
    /\ cpc = "loop"
    /\ "tiles" \in manifest.keys
    /\ idx > Len(manifest.tiles)
    /\ out_dir' = TRUE
    /\ output' = canvas
    /\ cpc' = "saved"
    /\ UNCHANGED <<splitVars, cliVars, callVars, files, manifest, op, latlon, bounds_px, idx, canvas,
                   probed, opened, resolved>>
    /\ UNCHANGED sysVars

\* the caller repeats a finished request: compose_region is entered again
\* with the same rectangle and output path; the file saved before is still
\* there until the new save replaces it
ComposeAgain ==
    /\ cpc = "saved"
    /\ prev_output = NoImage
    /\ prev_output' = output
    /\ EnterCompose(bounds_px)
    /\ probed' = {}
    /\ opened' = {}
    /\ resolved' = <<>>
    /\ UNCHANGED <<splitVars, cliVars, other, files, manifest, op, latlon, out_dir, output>>
    /\ UNCHANGED sysVars

\* mutant of RequestCanvas: the buffer of a composition in progress is reused
RequestCanvasShared(own, foreign) == IF foreign = NoImage THEN own ELSE foreign

\* the canvas a request pastes into: the local variable of its own call
RequestCanvas(own, foreign) == own

\* rectangles of positive area inside the mosaic
MosaicRects(width, height) ==
    {rect \in PixelRects(width, height) :
        /\ 0 <= rect[1] /\ rect[1] < rect[3] /\ rect[3] <= width
        /\ 0 <= rect[2] /\ rect[2] < rect[4] /\ rect[4] <= height}

\* a second request calls compose_region while the first may be in progress
OtherStart ==
    /\ other.cpc = "idle"
    /\ ManifestLoads(manifest)
    /\ \E rect \in MosaicRects(manifest.image_size.width, manifest.image_size.height) :
          other' = [cpc |-> "loop",
                    bounds_px |-> <<rect[1], rect[2], rect[3], rect[4]>>,
                    idx |-> 1,
                    canvas |-> NewImage(rect[3] - rect[1], rect[4] - rect[2]),
                    opened |-> {},
                    output |-> NoImage]
    /\ UNCHANGED <<splitVars, cliVars, prev_output, files, manifest, composeVars>>
    /\ UNCHANGED sysVars

\* one iteration of the second request's loop
OtherStep ==
    /\ other.cpc = "loop"
    /\ other.idx <= Len(manifest.tiles)
    /\ LET tile == manifest.tiles[other.idx]
           res == Resolve(tile, manifest, DOMAIN files)
           inter == Intersection(other.bounds_px, tile)
       IN  /\ res.found
           /\ other' =
                 IF Skipped(inter)
                 THEN [other EXCEPT !.idx = @ + 1]
                 ELSE [other EXCEPT
                          !.idx = @ + 1,
                          !.opened = @ \cup {res.path},
                          !.canvas = Paste(RequestCanvas(other.canvas, canvas),
                                           Crop(files[res.path], CropBox(inter, tile)),
                                           PasteBox(inter, other.bounds_px))]
    /\ UNCHANGED <<splitVars, cliVars, prev_output, files, manifest, composeVars>>
    /\ UNCHANGED sysVars

\* the second request saves its canvas at its own output path
OtherSave ==
    /\ other.cpc = "loop"
    /\ other.idx > Len(manifest.tiles)
    /\ other' = [other EXCEPT !.cpc = "saved", !.output = other.canvas]
    /\ UNCHANGED <<splitVars, cliVars, prev_output, files, manifest, composeVars>>
    /\ UNCHANGED sysVars

\* compose_region as a function of the manifest, the storage and the
\* rectangle: the canvas after the tiles from the i-th on were handled
RECURSIVE ComposeFrom(_, _, _, _, _)
ComposeFrom(m, storage, rect, i, cv) ==
    IF i > Len(m.tiles)
    THEN cv
    ELSE LET tile == m.tiles[i]
             res == Resolve(tile, m, DOMAIN storage)
             inter == Intersection(rect, tile)
         IN  ComposeFrom(m, storage, rect, i + 1,
                         IF Skipped(inter)
                         THEN cv
                         ELSE Paste(cv, Crop(storage[res.path], CropBox(inter, tile)),
                                    PasteBox(inter, rect)))

\* the raster a request for rect saves when it runs alone
ComposeAlone(m, storage, rect) ==
    ComposeFrom(m, storage, rect, 1,
                NewImage(Max(0, rect[3] - rect[1]), Max(0, rect[4] - rect[2])))

\* tiles_from_manifest reads manifest["tiles"] when the loop asks for the
\* first tile: a manifest without the key raises KeyError there, after the
\* canvas was allocated
ComposeTilesKeyError ==
    /\ cpc = "loop"
    /\ "tiles" \notin manifest.keys
    /\ cpc' = "KeyError"
    /\ UNCHANGED <<splitVars, cliVars, callVars, files, manifest, op, latlon, bounds_px,
                   idx, canvas, probed, opened, resolved, out_dir, output>>
    /\ UNCHANGED sysVars

\* ------------------------------------------------------ services/dataset.py
\* stitch_full_scene: the manifest is parsed with json.loads and handed to
\* stitch_full, which reads image_size and calls compose_region
ServiceStitchFull ==
    /\ cpc = "idle"
    /\ manifest.exists
    /\ IF "image_size" \in manifest.keys
       THEN EnterCompose(<<0, 0, manifest.image_size.width, manifest.image_size.height>>)
       ELSE /\ cpc' = "KeyError"
            /\ UNCHANGED <<bounds_px, idx, canvas>>
    /\ op' = "service_stitch"
    /\ UNCHANGED <<splitVars, cliVars, callVars, files, manifest, latlon, probed, opened,
                   resolved, out_dir, output>>
    /\ UNCHANGED sysVars

\* the service's crop_by_latlon: the manifest is parsed with json.loads and
\* handed to crop_by_latlon, which reads image_size after the extent
ServiceCropByLatLon ==
    /\ cpc = "idle"
    /\ manifest.exists
    /\ \E req \in GeoRequests(SceneLabel) :
          LET g == GeoToPixel(manifest, <<req[1], req[2], req[3], req[4]>>)
          IN  /\ latlon' = <<req[1], req[2], req[3], req[4]>>
              /\ IF g.status \in {"MissingProjectionMetadata", "InvalidExtent"}
                 THEN /\ cpc' = g.status
                      /\ UNCHANGED <<bounds_px, idx, canvas>>
                 ELSE IF "image_size" \notin manifest.keys
                 THEN /\ cpc' = "KeyError"
                      /\ UNCHANGED <<bounds_px, idx, canvas>>
                 ELSE IF g.status = "ok"
                 THEN EnterCompose(g.rect)
                 ELSE /\ cpc' = g.status
                      /\ UNCHANGED <<bounds_px, idx, canvas>>
    /\ op' = "service_crop"
    /\ UNCHANGED <<splitVars, cliVars, callVars, files, manifest, probed, opened, resolved,
                   out_dir, output>>
    /\ UNCHANGED sysVars

\* ------------------------------------------------------------- environment
MissingTiles == {i \in 1 .. Len(manifest.tiles) :
                    ~Resolve(manifest.tiles[i], manifest, DOMAIN files).found}

\* a tile file disappears from storage (removal is an external concern)
EnvRemoveTile ==
    /\ manifest.exists
    /\ cpc = "idle"
    /\ Cardinality(MissingTiles) < MaxMissing
    /\ \E p \in DOMAIN files :
          files' = [q \in (DOMAIN files) \ {p} |-> files[q]]
    /\ UNCHANGED <<splitVars, cliVars, callVars, manifest, composeVars>>
    /\ UNCHANGED sysVars

\* ------------------------------------------- converter.py: conversion loop
\* CONVERTERS, in priority order
Converters == <<"ffmpeg", "gdal_translate", "magick", "convert">>

\* the conversion loop has not been entered
NoConv ==
    [pc |-> "idle", n |-> 0, force |-> FALSE, tiling |-> FALSE, converters |-> <<>>,
     f |-> 0, k |-> 0, dst |-> <<>>, had_dst |-> FALSE, status |-> "none",
     tries |-> <<>>, converted |-> 0, skipped |-> 0, failed |-> 0, tiled |-> {},
     exit |-> -1]

\* find_converters: the converters found on PATH, in the order of CONVERTERS
Available(present) ==
    LET F[i \in 0 .. Len(Converters)] ==
            IF i = 0 THEN <<>>
            ELSE IF Converters[i] \in present THEN Append(F[i - 1], Converters[i])
            ELSE F[i - 1]
    IN  F[Len(Converters)]

\* what a run of an external converter can do: succeed and write the
\* destination, fail without touching it, or fail leaving a partial file
RunOutcomes == {"ok", "error_clean", "error_partial"}

\* try_convert_with: dst.exists() and not overwrite
DstBlocks(c) == c.dst[c.f] # "absent" /\ ~c.force

\* mutant of ConvTry: the loop goes on to the next converter after a success
ConvTryNoBreak ==
    /\ conv.pc = "loop"
    /\ conv.f <= conv.n
    /\ conv.k <= Len(conv.converters)
    /\ \/ /\ DstBlocks(conv)
          /\ conv' = [conv EXCEPT
                         !.status = "skip",
                         !.k = @ + 1,
                         !.tries = Append(@, <<conv.converters[conv.k], "skip">>)]
       \/ /\ ~DstBlocks(conv)
          /\ \E outcome \in RunOutcomes :
                conv' = [conv EXCEPT
                            !.status = IF outcome = "ok" THEN "ok" ELSE "error",
                            !.k = @ + 1,
                            !.dst[conv.f] = IF outcome = "ok" THEN "complete"
                                            ELSE IF outcome = "error_partial" THEN "partial"
                                            ELSE @,
                            !.tries = Append(@, <<conv.converters[conv.k],
                                                  IF outcome = "ok" THEN "ok" ELSE "error">>)]
    /\ UNCHANGED <<splitVars, files, manifest, composeVars, cliVars, callVars,
                   sup, handler, init_call>>

\* one iteration of the inner loop of main(): try_convert_with is called for
\* the next converter; "ok" and "skip" break the loop
ConvTry ==
    /\ conv.pc = "loop"
    /\ conv.f <= conv.n
    /\ conv.status \in {"none", "error"}
    /\ conv.k <= Len(conv.converters)
    /\ \/ /\ DstBlocks(conv)
          /\ conv' = [conv EXCEPT
                         !.status = "skip",
                         !.tries = Append(@, <<conv.converters[conv.k], "skip">>)]
       \/ /\ ~DstBlocks(conv)
          /\ \E outcome \in RunOutcomes :
                conv' = [conv EXCEPT
                            !.status = IF outcome = "ok" THEN "ok" ELSE "error",
                            !.k = IF outcome = "ok" THEN @ ELSE @ + 1,
                            !.dst[conv.f] = IF outcome = "ok" THEN "complete"
                                            ELSE IF outcome = "error_partial" THEN "partial"
                                            ELSE @,
                            !.tries = Append(@, <<conv.converters[conv.k],
                                                  IF outcome = "ok" THEN "ok" ELSE "error">>)]
    /\ UNCHANGED <<splitVars, files, manifest, composeVars, cliVars, callVars,
                   sup, handler, init_call>>

\* the file that follows file f: its destination is looked up afresh
NextFile(c) ==
    [c EXCEPT !.f = @ + 1, !.k = 1, !.status = "none", !.tries = <<>>,
              !.had_dst = IF c.f + 1 <= c.n THEN c.dst[c.f + 1] # "absent" ELSE FALSE]

\* the else branch of the inner loop: every converter returned "error"
ConvFileFailed ==
    /\ conv.pc = "loop"
    /\ conv.f <= conv.n
    /\ conv.status \in {"none", "error"}
    /\ conv.k > Len(conv.converters)
    /\ conv' = [NextFile(conv) EXCEPT !.failed = @ + 1]
    /\ UNCHANGED <<splitVars, files, manifest, composeVars, cliVars, callVars,
                   sup, handler, init_call>>

\* the rest of the outer loop's body after a break: the file is counted and,
\* with --tile-size and an existing destination, handed to split_into_tiles
ConvFileDone ==
    /\ conv.pc = "loop"
    /\ conv.f <= conv.n
    /\ conv.status \in {"ok", "skip"}
    /\ conv' = [NextFile(conv) EXCEPT
                   !.converted = IF conv.status = "ok" THEN @ + 1 ELSE @,
                   !.skipped = IF conv.status = "skip" THEN @ + 1 ELSE @,
                   !.tiled = IF conv.tiling /\ conv.dst[conv.f] # "absent"
                             THEN @ \cup {conv.f} ELSE @]
    /\ UNCHANGED <<splitVars, files, manifest, composeVars, cliVars, callVars,
                   sup, handler, init_call>>

\* the loop is over: main() returns 0 if no file failed and 2 otherwise
ConvExit ==
    /\ conv.pc = "loop"
    /\ conv.f > conv.n
    /\ conv' = [conv EXCEPT !.pc = "done",
                            !.exit = IF conv.failed = 0 THEN 0 ELSE 2]
    /\ UNCHANGED <<splitVars, files, manifest, composeVars, cliVars, callVars,
                   sup, handler, init_call>>

\* ----------------------------------------------------------------- manage.py
\* One service. pid_file is the PID the file holds (0: no file), live the set
\* of running service processes, spawned the number of processes started so
\* far, inv the invocations of start_service and stop_service with their
\* local variables.
NoSup == [pid_file |-> 0, live |-> {}, spawned |-> 0, inv |-> <<>>]

\* an invocation that has not been made
NoInvocation == [kind |-> "none", pc |-> "idle", pid |-> 0]

\* read_pid: the PID in the file if the file exists and that process runs
ReadPid(s) == IF s.pid_file # 0 /\ s.pid_file \in s.live THEN s.pid_file ELSE 0

\* the script is invoked with start or stop (each invocation is a process of
\* its own; nothing orders two invocations)
SupInvoke ==
    /\ \E i \in DOMAIN sup.inv, kind \in {"start", "stop"} :
          /\ sup.inv[i].pc = "idle"
          /\ sup' = [sup EXCEPT !.inv[i] = [kind |-> kind, pc |-> "read", pid |-> 0]]
    /\ UNCHANGED <<splitVars, files, manifest, composeVars, cliVars, callVars,
                   conv, handler, init_call>>

\* start_service: existing = read_pid(pid_file); return if a process runs
StartRead ==
    /\ \E i \in DOMAIN sup.inv :
          /\ sup.inv[i].kind = "start"
          /\ sup.inv[i].pc = "read"
          /\ sup' = [sup EXCEPT !.inv[i].pc = IF ReadPid(sup) # 0 THEN "done" ELSE "spawn"]
    /\ UNCHANGED <<splitVars, files, manifest, composeVars, cliVars, callVars,
                   conv, handler, init_call>>

\* start_service: subprocess.Popen
StartSpawn ==
    /\ \E i \in DOMAIN sup.inv :
          /\ sup.inv[i].kind = "start"
          /\ sup.inv[i].pc = "spawn"
          /\ sup' = [sup EXCEPT !.spawned = @ + 1,
                                !.live = @ \cup {sup.spawned + 1},
                                !.inv[i].pid = sup.spawned + 1,
                                !.inv[i].pc = "poll"]
    /\ UNCHANGED <<splitVars, files, manifest, composeVars, cliVars, callVars,
                   conv, handler, init_call>>

\* start_service after the sleep: remove_pid if the process has exited,
\* write_pid otherwise
StartPoll ==
    /\ \E i \in DOMAIN sup.inv :
          /\ sup.inv[i].kind = "start"
          /\ sup.inv[i].pc = "poll"
          /\ sup' = [sup EXCEPT !.pid_file = IF sup.inv[i].pid \in sup.live
                                             THEN sup.inv[i].pid ELSE 0,
                                !.inv[i].pc = "done"]
    /\ UNCHANGED <<splitVars, files, manifest, composeVars, cliVars, callVars,
                   conv, handler, init_call>>

\* stop_service: pid = read_pid(pid_file); remove_pid and return if none
StopRead ==
    /\ \E i \in DOMAIN sup.inv :
          /\ sup.inv[i].kind = "stop"
          /\ sup.inv[i].pc = "read"
          /\ IF ReadPid(sup) = 0
             THEN sup' = [sup EXCEPT !.pid_file = 0, !.inv[i].pc = "done"]
             ELSE sup' = [sup EXCEPT !.inv[i].pid = ReadPid(sup), !.inv[i].pc = "kill"]
    /\ UNCHANGED <<splitVars, files, manifest, composeVars, cliVars, callVars,
                   conv, handler, init_call>>

\* stop_service: SIGTERM, the wait for the exit and SIGKILL at the deadline;
\* ProcessLookupError leads to remove_pid and return
StopKill ==
    /\ \E i \in DOMAIN sup.inv :
          /\ sup.inv[i].kind = "stop"
          /\ sup.inv[i].pc = "kill"
          /\ IF sup.inv[i].pid \in sup.live
             THEN sup' = [sup EXCEPT !.live = @ \ {sup.inv[i].pid}, !.inv[i].pc = "remove"]
             ELSE sup' = [sup EXCEPT !.pid_file = 0, !.inv[i].pc = "done"]
    /\ UNCHANGED <<splitVars, files, manifest, composeVars, cliVars, callVars,
                   conv, handler, init_call>>

\* stop_service: the final remove_pid
StopRemove ==
    /\ \E i \in DOMAIN sup.inv :
          /\ sup.inv[i].kind = "stop"
          /\ sup.inv[i].pc = "remove"
          /\ sup' = [sup EXCEPT !.pid_file = 0, !.inv[i].pc = "done"]
    /\ UNCHANGED <<splitVars, files, manifest, composeVars, cliVars, callVars,
                   conv, handler, init_call>>

\* a service process exits on its own (a crash, a port already bound)
ProcessExits ==
    /\ \E p \in sup.live : sup' = [sup EXCEPT !.live = @ \ {p}]
    /\ UNCHANGED <<splitVars, files, manifest, composeVars, cliVars, callVars,
                   conv, handler, init_call>>

\* ------------------------------------------------------------ api/routes.py
\* One request to crop_scene or download_full. temp is the state of the
\* handler's temporary output file: "none" (not created), "exists",
\* "scheduled" (exists, its deletion registered as a background task) or
\* "deleted"; response is the HTTP status the handler ends with.
NoHandler == [route |-> "none", pc |-> "idle", temp |-> "none", response |-> 0]

\* the statuses of a composition that are a ValueError in restitcher.py
ValueErrors == {"EmptyRegion", "OutOfBounds", "MissingProjectionMetadata", "InvalidExtent"}

\* the statuses that are a FileNotFoundError or a KeyError
OtherErrors == {"MissingTile", "KeyError"}

UnchangedByHandler ==
    UNCHANGED <<splitVars, files, manifest, composeVars, cliVars, callVars,
                conv, sup, init_call>>

\* crop_scene / download_full up to the call of the service: 404 if the
\* scene has no manifest, else the temporary file is created
HandlerStart ==
    /\ handler.pc = "idle"
    /\ cpc = "idle"
    /\ \E route \in {"crop", "full"} :
          handler' = IF manifest.exists
                     THEN [route |-> route, pc |-> "called", temp |-> "exists", response |-> 0]
                     ELSE [route |-> route, pc |-> "returned", temp |-> "none", response |-> 404]
    /\ UnchangedByHandler

\* the handler calls dataset.crop_by_latlon or dataset.stitch_full_scene
HandlerCall ==
    /\ handler.pc = "called"
    /\ \/ handler.route = "crop" /\ ServiceCropByLatLon
       \/ handler.route = "full" /\ ServiceStitchFull

\* the service call is over. Success: the deletion of the temporary file is
\* registered as a background task and the file is the response. crop_scene
\* catches ValueError, unlinks the file and answers 400; every other
\* exception, and every exception in download_full, leaves the handler
\* uncaught (answered 500)
HandlerReturn ==
    /\ handler.pc = "called"
    /\ cpc \in {"saved"} \cup ValueErrors \cup OtherErrors
    /\ handler' =
          IF cpc = "saved"
          THEN [handler EXCEPT !.pc = "returned", !.temp = "scheduled", !.response = 200]
          ELSE IF handler.route = "crop" /\ cpc \in ValueErrors
          THEN [handler EXCEPT !.pc = "returned", !.temp = "deleted", !.response = 400]
          ELSE [handler EXCEPT !.pc = "returned", !.response = 500]
    /\ UnchangedByHandler

\* the background task runs after the response was sent: _safe_unlink
BackgroundUnlink ==
    /\ handler.pc = "returned"
    /\ handler.temp = "scheduled"
    /\ handler' = [handler EXCEPT !.pc = "cleaned", !.temp = "deleted"]
    /\ UnchangedByHandler

NoInit == [calls |-> 0, runs |-> 0, force |-> FALSE, status |-> "none"]

\* nothing outside the converter and the compositor has happened
SystemIdle ==
    /\ conv = NoConv
    /\ sup = NoSup
    /\ handler = NoHandler
    /\ init_call = NoInit

\* ------------------------------------------------------------ specification
NoRequest == <<0, 0, 0, 0>>

\* the second request has not been made
NoOther == [cpc |-> "idle", bounds_px |-> NoRequest, idx |-> 0, canvas |-> NoImage,
            opened |-> {}, output |-> NoImage]

\* no composition request has been made
ComposeIdle ==
    /\ op = "none"
    /\ latlon = NoRequest
    /\ bounds_px = NoRequest
    /\ cpc = "idle"
    /\ idx = 0
    /\ canvas = NoImage
    /\ probed = {}
    /\ opened = {}
    /\ resolved = <<>>
    /\ out_dir = FALSE
    /\ output = NoImage
    /\ prev_output = NoImage
    /\ other = NoOther

\* The converter tiles a scene; compositions by pixel rectangle and of the
\* full scene read the manifest; tile files may disappear from storage.
Init ==
    /\ \E w \in 1 .. MaxW, h \in 1 .. MaxH : img = SourceImage(w, h)
    /\ tile_size \in (-1) .. MaxT
    /\ label = SceneLabel
    /\ base_dir = <<>>
    /\ spc = "idle"
    /\ top = 0
    /\ left = 0
    /\ count = 0
    /\ tile_records = <<>>
    /\ files = <<>>
    /\ manifest = NoManifest
    /\ mpc = "none"
    /\ effects = {}
    /\ ComposeIdle
    /\ SystemIdle

Next ==
    \/ SplitStart
    \/ SplitReject
    \/ SplitStep
    \/ SplitSaveFail
    \/ WriteManifest
    \/ EnvRemoveTile
    \/ LoadManifestFail
    \/ ComposeRegion
    \/ StitchFull
    \/ ComposeStep
    \/ ComposeMissing
    \/ ComposeSave

Spec == Init /\ [][Next]_vars

\* The converter's command line and split_into_tiles called directly.
NextCli ==
    \/ MainReject
    \/ MainConvert
    \/ SplitStart
    \/ SplitReject
    \/ SplitStep
    \/ SplitSaveFail
    \/ WriteManifest

SpecCli == Init /\ [][NextCli]_vars

\* the tile files a completed split_into_tiles leaves in dir
TileFiles(records, im, dir) ==
    [p \in {Join(dir, records[i].path) : i \in 1 .. Len(records)} |->
        LET rec == CHOOSE r \in {records[i] : i \in 1 .. Len(records)} :
                       Join(dir, r.path) = p
        IN  Crop(im, <<rec.x, rec.y, rec.x + rec.width, rec.y + rec.height>>)]

\* the state a completed converter run leaves in the converter's variables
ConvertedScene(w, h, T, dir, lbl) ==
    LET records == SplitRecords(w, h, T, dir, Root)
    IN  /\ img = SourceImage(w, h)
        /\ tile_size = T
        /\ label = lbl
        /\ base_dir = dir
        /\ spc = "committed"
        /\ top = IF records = <<>> THEN 0 ELSE records[Len(records)].y + T
        /\ left = 0
        /\ count = Len(records)
        /\ tile_records = records
        /\ mpc = "converted"
        /\ effects = {"tiles_root", "converter", "base_dir", "source_opened"}

\* Geographic crops of a converted scene whose tiles are all in place.
InitGeo ==
    /\ \E w \in 1 .. MaxW, h \in 1 .. MaxH, T \in 1 .. MaxT, lbl \in Labels,
          dir \in {DirUnderRoot, DirOutsideRoot} :
          /\ ConvertedScene(w, h, T, dir, lbl)
          /\ files = TileFiles(SplitRecords(w, h, T, dir, Root), SourceImage(w, h), dir)
          /\ manifest = BuildManifest(dir, <<w, h>>, T,
                                      SplitRecords(w, h, T, dir, Root), Root, lbl)
    /\ ComposeIdle
    /\ SystemIdle

NextGeo ==
    \/ CropByLatLon
    \/ ComposeStep
    \/ ComposeSave

SpecGeo == InitGeo /\ [][NextGeo]_vars

\* Requests of every kind on a converted scene whose label gives no extent.
InitPixelOnly ==
    /\ \E w \in 1 .. MaxW, T \in 1 .. MaxT, lbl \in UnusableLabels :
          /\ ConvertedScene(w, 1, T, DirUnderRoot, lbl)
          /\ files = TileFiles(SplitRecords(w, 1, T, DirUnderRoot, Root),
                               SourceImage(w, 1), DirUnderRoot)
          /\ manifest = BuildManifest(DirUnderRoot, <<w, 1>>, T,
                                      SplitRecords(w, 1, T, DirUnderRoot, Root), Root, lbl)
    /\ ComposeIdle
    /\ SystemIdle

NextPixelOnly ==
    \/ CropByLatLon
    \/ ComposeRegion
    \/ StitchFull
    \/ ComposeStep
    \/ ComposeSave

SpecPixelOnly == InitPixelOnly /\ [][NextPixelOnly]_vars

\* Pixel compositions of a converted scene, each request made a second time.
InitRepeat ==
    /\ \E w \in 1 .. MaxW, h \in 1 .. MaxH, T \in 1 .. MaxT :
          /\ ConvertedScene(w, h, T, DirUnderRoot, SceneLabel)
          /\ files = TileFiles(SplitRecords(w, h, T, DirUnderRoot, Root),
                               SourceImage(w, h), DirUnderRoot)
          /\ manifest = BuildManifest(DirUnderRoot, <<w, h>>, T,
                                      SplitRecords(w, h, T, DirUnderRoot, Root),
                                      Root, SceneLabel)
    /\ ComposeIdle
    /\ SystemIdle

NextRepeat ==
    \/ ComposeRegion
    \/ StitchFull
    \/ ComposeStep
    \/ ComposeSave
    \/ ComposeAgain

SpecRepeat == InitRepeat /\ [][NextRepeat]_vars

\* Two requests over one manifest: the full scene and a rectangle, their
\* steps interleaved in every order.
InitConcurrent ==
    /\ \E w \in 1 .. MaxW, h \in 1 .. MaxH, T \in 1 .. MaxT :
          /\ ConvertedScene(w, h, T, DirUnderRoot, SceneLabel)
          /\ files = TileFiles(SplitRecords(w, h, T, DirUnderRoot, Root),
                               SourceImage(w, h), DirUnderRoot)
          /\ manifest = BuildManifest(DirUnderRoot, <<w, h>>, T,
                                      SplitRecords(w, h, T, DirUnderRoot, Root),
                                      Root, SceneLabel)
    /\ ComposeIdle
    /\ SystemIdle

NextConcurrent ==
    \/ StitchFull
    \/ ComposeStep
    \/ ComposeSave
    \/ OtherStart
    \/ OtherStep
    \/ OtherSave

SpecConcurrent == InitConcurrent /\ [][NextConcurrent]_vars

\* A loadable manifest whose records overlap: one tile record of a converted
\* scene has its x moved one pixel to the left, onto its neighbour.
ShiftedLeft(records, k) == [records EXCEPT ![k].x = @ - 1]

InitOverlap ==
    /\ \E w \in 2 .. MaxW, h \in 1 .. MaxH :
          /\ ConvertedScene(w, h, 1, DirUnderRoot, SceneLabel)
          /\ files = TileFiles(SplitRecords(w, h, 1, DirUnderRoot, Root),
                               SourceImage(w, h), DirUnderRoot)
          /\ \E k \in {i \in 1 .. (w * h) : tile_records[i].col > 0} :
                manifest = BuildManifest(DirUnderRoot, <<w, h>>, 1,
                                         ShiftedLeft(tile_records, k), Root, SceneLabel)
    /\ ComposeIdle
    /\ SystemIdle

NextOverlap ==
    \/ ComposeRegion
    \/ StitchFull
    \/ ComposeStep
    \/ ComposeSave

SpecOverlap == InitOverlap /\ [][NextOverlap]_vars

\* a single small scene on which neither converter nor compositor has acted
QuietScene ==
    /\ img = SourceImage(1, 1)
    /\ tile_size = 1
    /\ label = NoLabel
    /\ base_dir = <<>>
    /\ spc = "idle"
    /\ top = 0
    /\ left = 0
    /\ count = 0
    /\ tile_records = <<>>
    /\ files = <<>>
    /\ manifest = NoManifest
    /\ mpc = "none"
    /\ effects = {}
    /\ ComposeIdle

\* The conversion loop of the converter's main(): any number of JP2 files, any
\* set of converters on PATH, destinations present or not, with and without
\* --force and --tile-size.
MaxFiles == 2

InitConvert ==
    /\ QuietScene
    /\ sup = NoSup
    /\ handler = NoHandler
    /\ init_call = NoInit
    /\ \E n \in 0 .. MaxFiles, force \in BOOLEAN, tiling \in BOOLEAN,
          present \in (SUBSET {Converters[i] : i \in 1 .. Len(Converters)}) \ {{}} :
          \E dst \in [1 .. n -> {"absent", "complete"}] :
             conv = [NoConv EXCEPT
                        !.pc = "loop", !.n = n, !.force = force, !.tiling = tiling,
                        !.converters = Available(present), !.f = 1, !.k = 1,
                        !.dst = dst,
                        !.had_dst = n >= 1 /\ dst[1] # "absent"]

NextConvert ==
    \/ ConvTry
    \/ ConvFileFailed
    \/ ConvFileDone
    \/ ConvExit

SpecConvert == InitConvert /\ [][NextConvert]_vars

\* Geographic crops, computed in floats, of a scene that straddles the
\* equator and the prime meridian.
InitFloat ==
    /\ \E w \in 1 .. MaxW, h \in 1 .. MaxH, T \in 1 .. MaxT :
          /\ ConvertedScene(w, h, T, DirUnderRoot, EquatorLabel)
          /\ files = TileFiles(SplitRecords(w, h, T, DirUnderRoot, Root),
                               SourceImage(w, h), DirUnderRoot)
          /\ manifest = BuildManifest(DirUnderRoot, <<w, h>>, T,
                                      SplitRecords(w, h, T, DirUnderRoot, Root), Root,
                                      EquatorLabel)
    /\ ComposeIdle
    /\ SystemIdle

NextFloat ==
    \/ CropByLatLonFloat
    \/ ComposeStep
    \/ ComposeSave

SpecFloat == InitFloat /\ [][NextFloat]_vars

\* Successive converter runs on one scene and one tile directory.
InitRerun ==
    /\ \E w \in 1 .. MaxW, h \in 1 .. MaxH : img = SourceImage(w, h)
    /\ tile_size \in 1 .. MaxT
    /\ label = SceneLabel
    /\ base_dir = <<>>
    /\ spc = "idle"
    /\ top = 0
    /\ left = 0
    /\ count = 0
    /\ tile_records = <<>>
    /\ files = <<>>
    /\ manifest = NoManifest
    /\ mpc = "none"
    /\ effects = {}
    /\ ComposeIdle
    /\ SystemIdle

NextRerun ==
    \/ SplitStart
    \/ SplitStep
    \/ SplitSaveFail
    \/ WriteManifest
    \/ Rerun

SpecRerun == InitRerun /\ [][NextRerun]_vars

\* Invocations of the control script's start and stop on one service, in any
\* interleaving.
MaxInvocations == 3

InitSupervise ==
    /\ QuietScene
    /\ conv = NoConv
    /\ handler = NoHandler
    /\ init_call = NoInit
    /\ sup = [NoSup EXCEPT !.inv = [i \in 1 .. MaxInvocations |-> NoInvocation]]

NextSupervise ==
    \/ SupInvoke
    \/ StartRead
    \/ StartSpawn
    \/ StartPoll
    \/ StopRead
    \/ StopKill
    \/ StopRemove
    \/ ProcessExits

SpecSupervise == InitSupervise /\ [][NextSupervise]_vars

\* Requests to the crop and full-scene endpoints for a converted scene, with
\* all tiles in place or with one of them gone.
InitHandler ==
    /\ \E w \in 1 .. MaxW :
          /\ ConvertedScene(w, 1, 1, DirUnderRoot, SceneLabel)
          /\ files = TileFiles(SplitRecords(w, 1, 1, DirUnderRoot, Root),
                               SourceImage(w, 1), DirUnderRoot)
          /\ manifest = BuildManifest(DirUnderRoot, <<w, 1>>, 1,
                                      SplitRecords(w, 1, 1, DirUnderRoot, Root),
                                      Root, SceneLabel)
    /\ ComposeIdle
    /\ SystemIdle

NextHandler ==
    \/ EnvRemoveTile
    \/ HandlerStart
    \/ HandlerCall
    \/ ComposeStep
    \/ ComposeMissing
    \/ ComposeSave
    \/ HandlerReturn
    \/ BackgroundUnlink

SpecHandler == InitHandler /\ [][NextHandler]_vars

\* ----------------------------------------------- api/routes.py: POST /init
\* compute_bounds_from_manifest returns a value other than None: the label
\* metadata has a projection holding the four extent values
HasComputedBounds(m) ==
    /\ "label_metadata" \in m.keys
    /\ m.label_metadata.present
    /\ m.label_metadata.has_projection
    /\ ExtentKeys \subseteq m.label_metadata.keys

\* manifests_ready(list_manifests(data_path)) for the one scene of the data
\* directory: there is a manifest, it lists tiles and its bounds are not None
ManifestsReady(m) ==
    /\ m.exists
    /\ "tiles" \in m.keys /\ m.tiles # <<>>
    /\ HasComputedBounds(m)

\* the requests made to POST /init
MaxCalls == 3

\* initialize_dataset: "skipped" when the manifests are ready and force is
\* not set; else run_converter, which tiles the scene and writes its manifest
\* (status "ok") or exits non-zero (RuntimeError, HTTP 500)
InitializeDataset ==
    /\ init_call.calls < MaxCalls
    /\ \E force \in BOOLEAN :
          IF ManifestsReady(manifest) /\ ~force
          THEN /\ init_call' = [init_call EXCEPT !.calls = @ + 1, !.force = force,
                                                 !.status = "skipped"]
               /\ UNCHANGED <<splitVars, files, manifest, cliVars>>
          ELSE \E returncode \in {0, 2} :
                  IF returncode = 0
                  THEN LET records == SplitRecords(img.w, img.h, tile_size, DirUnderRoot, Root)
                       IN  /\ init_call' = [init_call EXCEPT !.calls = @ + 1, !.runs = @ + 1,
                                                             !.force = force, !.status = "ok"]
                           /\ base_dir' = DirUnderRoot
                           /\ spc' = "committed"
                           /\ top' = IF records = <<>> THEN 0
                                     ELSE records[Len(records)].y + tile_size
                           /\ left' = 0
                           /\ count' = Len(records)
                           /\ tile_records' = records
                           /\ mpc' = "converted"
                           /\ effects' = {"tiles_root", "converter", "base_dir", "source_opened"}
                           /\ files' = TileFiles(records, img, DirUnderRoot) @@ files
                           /\ manifest' = BuildManifest(DirUnderRoot, <<img.w, img.h>>, tile_size,
                                                        records, Root, label)
                           /\ UNCHANGED <<img, tile_size, label>>
                  ELSE /\ init_call' = [init_call EXCEPT !.calls = @ + 1, !.runs = @ + 1,
                                                         !.force = force, !.status = "error"]
                       /\ UNCHANGED <<splitVars, files, manifest, cliVars>>
    /\ UNCHANGED <<composeVars, callVars, conv, sup, handler>>

\* Requests to POST /init on a data directory holding one scene, with or
\* without label metadata, that has not been converted yet.
InitDataset ==
    /\ \E w \in 1 .. MaxW, h \in 1 .. MaxH : img = SourceImage(w, h)
    /\ tile_size \in 1 .. MaxT
    /\ label \in {SceneLabel, NoLabel, LabelNoProjection}
    /\ base_dir = <<>>
    /\ spc = "idle"
    /\ top = 0
    /\ left = 0
    /\ count = 0
    /\ tile_records = <<>>
    /\ files = <<>>
    /\ manifest = NoManifest
    /\ mpc = "none"
    /\ effects = {}
    /\ ComposeIdle
    /\ SystemIdle

NextDataset == InitializeDataset

SpecDataset == InitDataset /\ [][NextDataset]_vars

\* A scene of more than a thousand tile rows (or columns) is tiled at a pitch
\* of one pixel.
ManyRows == 1001

InitNames ==
    /\ \E shape \in {<<1, ManyRows>>, <<ManyRows, 1>>} :
          img = SourceImage(shape[1], shape[2])
    /\ tile_size = 1
    /\ label = NoLabel
    /\ base_dir = <<>>
    /\ spc = "idle"
    /\ top = 0
    /\ left = 0
    /\ count = 0
    /\ tile_records = <<>>
    /\ files = <<>>
    /\ manifest = NoManifest
    /\ mpc = "none"
    /\ effects = {}
    /\ ComposeIdle
    /\ SystemIdle

NextNames ==
    \/ SplitStart
    \/ SplitStep
    \/ WriteManifest

SpecNames == InitNames /\ [][NextNames]_vars

\* A metadata.json that lost any of its required keys, read by the command
\* line and by the service.
RequiredKeys == {"image_size", "tile_size", "tiles"}

InitMalformed ==
    /\ \E w \in 1 .. MaxW, missing \in SUBSET RequiredKeys :
          /\ ConvertedScene(w, 1, 1, DirUnderRoot, SceneLabel)
          /\ files = TileFiles(SplitRecords(w, 1, 1, DirUnderRoot, Root),
                               SourceImage(w, 1), DirUnderRoot)
          /\ manifest = [BuildManifest(DirUnderRoot, <<w, 1>>, 1,
                                       SplitRecords(w, 1, 1, DirUnderRoot, Root),
                                       Root, SceneLabel)
                            EXCEPT !.keys = @ \ missing]
    /\ ComposeIdle
    /\ SystemIdle

NextMalformed ==
    \/ LoadManifestFail
    \/ StitchFull
    \/ ServiceStitchFull
    \/ ServiceCropByLatLon
    \/ ComposeStep
    \/ ComposeTilesKeyError
    \/ ComposeSave

SpecMalformed == InitMalformed /\ [][NextMalformed]_vars

\* A manifest as a deployment may hold it: copied to another directory, with
\* or without project_root, each tile carrying any of the two optional
\* location references, and any of the referenced files present.
ResolveTiles == 2

CopyDir == <<"copy">>

RelocatedTile(rec, keys) ==
    [rec EXCEPT
        !.keys = keys,
        !.relative_to_root =
            IF "relative_to_root" \in keys
            THEN [dir |-> <<"tiles", "scene">>, name |-> rec.path.name]
            ELSE NoRef,
        !.absolute =
            IF "absolute" \in keys
            THEN [dir |-> DirOutsideRoot, name |-> rec.path.name]
            ELSE NoRef]

LocationsOf(rec) ==
    {[dir |-> CopyDir, name |-> rec.path.name],
     [dir |-> DirUnderRoot, name |-> rec.path.name],
     [dir |-> DirOutsideRoot, name |-> rec.path.name]}

InitResolve ==
    /\ ConvertedScene(ResolveTiles, 1, 1, DirUnderRoot, NoLabel)
    /\ \E refs \in [1 .. ResolveTiles -> SUBSET {"relative_to_root", "absolute"}],
          mkeys \in {{"image_size", "tile_size", "tiles"},
                     {"image_size", "tile_size", "tiles", "project_root"}} :
          manifest =
              [BuildManifest(CopyDir, <<ResolveTiles, 1>>, 1, <<>>, Root, NoLabel)
                  EXCEPT !.keys = mkeys,
                         !.tiles = [i \in 1 .. ResolveTiles |->
                                       RelocatedTile(tile_records[i], refs[i])]]
    /\ \E present \in SUBSET UNION {LocationsOf(tile_records[i]) :
                                       i \in 1 .. ResolveTiles} :
          files = [p \in present |->
                      LET rec == CHOOSE r \in {tile_records[i] : i \in 1 .. ResolveTiles} :
                                     r.path.name = p.name
                      IN  Crop(img, <<rec.x, rec.y, rec.x + rec.width,
                                      rec.y + rec.height>>)]
    /\ ComposeIdle
    /\ SystemIdle

NextResolve ==
    \/ StitchFull
    \/ ComposeStep
    \/ ComposeMissing
    \/ ComposeSave

SpecResolve == InitResolve /\ [][NextResolve]_vars

\* ------------------------------------------------------------------ claims
\* the reference grid: rows top to bottom, columns left to right in a row
RefGrid(W, H, T) ==
    LET R == Ceil(H, T)
        C == Ceil(W, T)
    IN  [k \in 1 .. (R * C) |->
            LET r == (k - 1) \div C
                c == (k - 1) % C
            IN  [row |-> r, col |-> c, x |-> c * T, y |-> r * T,
                 width |-> Min((c + 1) * T, W) - c * T,
                 height |-> Min((r + 1) * T, H) - r * T]]

Geometry(records) ==
    [i \in 1 .. Len(records) |->
        [row |-> records[i].row, col |-> records[i].col,
         x |-> records[i].x, y |-> records[i].y,
         width |-> records[i].width, height |-> records[i].height]]

\* split_into_tiles has returned to main()
SplitReturned == spc = "returned"

\* the 5000 x 3000 raster tiled at 2048
ExampleRecords == SplitRecords(5000, 3000, 2048, DirUnderRoot, Root)

ExampleGridHolds ==
    /\ Geometry(ExampleRecords) = RefGrid(5000, 3000, 2048)
    /\ {<<ExampleRecords[i].row, ExampleRecords[i].col>> : i \in 1 .. Len(ExampleRecords)}
          = {0, 1} \X {0, 1, 2}
    /\ \A i \in 1 .. Len(ExampleRecords) :
          /\ ExampleRecords[i].row = 1 => ExampleRecords[i].height = 952
          /\ ExampleRecords[i].col = 2 => ExampleRecords[i].width = 904

\* C1: split_into_tiles returns exactly the reference grid in row-major
\* order, one record (row, col, x, y, width, height) per grid cell, and its
\* count is ceil(H/T) * ceil(W/T); while it runs, the records are a prefix of
\* that grid.  5000 x 3000 at 2048 gives rows {0,1}, columns {0,1,2}, row-1
\* height 952 and column-2 width 904.
C1_SplitMatchesReferenceGrid ==
    /\ spc \in {"loop", "returned"} =>
          /\ Len(tile_records) <= Len(RefGrid(img.w, img.h, tile_size))
          /\ Geometry(tile_records) =
                SubSeq(RefGrid(img.w, img.h, tile_size), 1, Len(tile_records))
          /\ count = Len(tile_records)
    /\ SplitReturned =>
          /\ Geometry(tile_records) = RefGrid(img.w, img.h, tile_size)
          /\ count = Ceil(img.h, tile_size) * Ceil(img.w, tile_size)
    /\ ExampleGridHolds

\* C1 witness: a split returned a grid whose last column is truncated
C1_Witness ==
    /\ SplitReturned
    /\ img.w = 3 /\ img.h = 2 /\ tile_size = 2
    /\ Len(tile_records) = 2
    /\ tile_records[2].width = 1

Covers(rec, x, y) ==
    /\ rec.x <= x /\ x < rec.x + rec.width
    /\ rec.y <= y /\ y < rec.y + rec.height

\* C2: the returned tile rectangles partition the raster: every pixel lies in
\* exactly one of them, every tile is 1..T wide and high, and none reaches
\* outside the raster
C2_TilesPartitionRaster ==
    SplitReturned =>
        /\ \A p \in Coords(img.w, img.h) :
              Cardinality({i \in 1 .. Len(tile_records) :
                              Covers(tile_records[i], p[1], p[2])}) = 1
        /\ \A i \in 1 .. Len(tile_records) :
              /\ tile_records[i].width \in 1 .. tile_size
              /\ tile_records[i].height \in 1 .. tile_size
              /\ tile_records[i].x >= 0
              /\ tile_records[i].y >= 0
              /\ tile_records[i].x + tile_records[i].width <= img.w
              /\ tile_records[i].y + tile_records[i].height <= img.h

\* C2 witness: a returned split of several tiles, the last one truncated in
\* width and in height
C2_Witness ==
    /\ SplitReturned
    /\ Len(tile_records) >= 2
    /\ tile_records[Len(tile_records)].width < tile_size
    /\ tile_records[Len(tile_records)].height < tile_size

\* C3: stitch_full on the splitter's manifest saves a raster of the source's
\* size whose every pixel equals the source's pixel
C3_StitchFullRoundTrip ==
    (op = "stitch" /\ cpc = "saved") =>
        /\ output.w = img.w
        /\ output.h = img.h
        /\ \A p \in Coords(img.w, img.h) : output.px[p] = img.px[p]

\* C3 witness: a full scene of several tiles, the last one truncated, was
\* stitched
C3_Witness ==
    /\ op = "stitch"
    /\ cpc = "saved"
    /\ Len(manifest.tiles) >= 2
    /\ img.h = 2
    /\ img.w % tile_size # 0

InsideMosaic(rect) ==
    /\ 0 <= rect[1] /\ rect[1] < rect[3] /\ rect[3] <= img.w
    /\ 0 <= rect[2] /\ rect[2] < rect[4] /\ rect[4] <= img.h

\* C4: for a rectangle inside the mosaic, compose_region saves a raster of
\* size (right-left) x (bottom-top) whose pixel (i, j) is the source's pixel
\* (left+i, top+j)
C4_ComposeRegionPixels ==
    (op = "compose" /\ cpc = "saved" /\ InsideMosaic(bounds_px)) =>
        /\ output.w = bounds_px[3] - bounds_px[1]
        /\ output.h = bounds_px[4] - bounds_px[2]
        /\ DOMAIN output.px = Coords(output.w, output.h)
        /\ \A p \in Coords(output.w, output.h) :
              output.px[p] = img.px[<<bounds_px[1] + p[1], bounds_px[2] + p[2]>>]

\* C4 witness: a proper sub-rectangle spanning several tile boundaries was
\* composed
C4_Witness ==
    /\ op = "compose"
    /\ cpc = "saved"
    /\ InsideMosaic(bounds_px)
    /\ bounds_px[1] > 0
    /\ Cardinality(opened) >= 4

\* C5: compose_region with right <= left or bottom <= top ends with the
\* EmptyRegion error and has done no I/O: no path tested, no tile opened, no
\* output directory created, no output written
C5_EmptyRegionNoIO ==
    (op = "compose" /\ (bounds_px[3] <= bounds_px[1] \/ bounds_px[4] <= bounds_px[2])) =>
        /\ cpc = "EmptyRegion"
        /\ probed = {}
        /\ opened = {}
        /\ ~out_dir
        /\ output = NoImage

\* C5 witness: a rectangle with right < left was rejected
C5_Witness ==
    /\ op = "compose"
    /\ cpc = "EmptyRegion"
    /\ bounds_px[3] < bounds_px[1]
    /\ bounds_px[4] > bounds_px[2]

\* the tile's rectangle and the requested rectangle share a pixel
Overlaps(tile, rect) ==
    \E x \in tile.x .. (tile.x + tile.width - 1), y \in tile.y .. (tile.y + tile.height - 1) :
        /\ rect[1] <= x /\ x < rect[3]
        /\ rect[2] <= y /\ y < rect[4]

\* tiles of the 5000 x 3000 example that compose_region does not skip for
\* the rectangle (2000, 2000, 2100, 2100)
ExampleTouched ==
    {<<ExampleRecords[i].row, ExampleRecords[i].col>> :
        i \in {k \in 1 .. Len(ExampleRecords) :
                  ~Skipped(Intersection(<<2000, 2000, 2100, 2100>>, ExampleRecords[k]))}}

\* C6: at every point of compose_region the tile files opened are exactly
\* those of the tiles yielded so far whose rectangle shares a pixel with the
\* requested rectangle, so that a finished composition has opened exactly the
\* intersecting tiles; a rectangle inside one tile opens one file; in the
\* 5000 x 3000 example (2000,2000,2100,2100) touches rows {0,1} x cols {0,1}
C6_OpensExactlyIntersectingTiles ==
    /\ cpc \in {"loop", "saved", "MissingTile"} =>
          /\ opened = {resolved[i] : i \in {k \in 1 .. Len(resolved) :
                                              Overlaps(manifest.tiles[k], bounds_px)}}
          /\ Len(resolved) = idx - 1
    /\ cpc = "saved" =>
          /\ Len(resolved) = Len(manifest.tiles)
          /\ Cardinality(opened) =
                Cardinality({k \in 1 .. Len(manifest.tiles) :
                                Overlaps(manifest.tiles[k], bounds_px)})
          /\ (\E k \in 1 .. Len(manifest.tiles) :
                 /\ manifest.tiles[k].x <= bounds_px[1]
                 /\ bounds_px[3] <= manifest.tiles[k].x + manifest.tiles[k].width
                 /\ manifest.tiles[k].y <= bounds_px[2]
                 /\ bounds_px[4] <= manifest.tiles[k].y + manifest.tiles[k].height)
             => Cardinality(opened) = 1
    /\ ExampleTouched = {0, 1} \X {0, 1}

\* C6 witness: a composition finished having opened some tiles and left
\* others unopened
C6_Witness ==
    /\ cpc = "saved"
    /\ Cardinality(opened) >= 2
    /\ Cardinality(opened) < Len(manifest.tiles)

\* the resolution order of the design: the first existing one of the path
\* next to the manifest, project_root/relative_to_root when both are
\* recorded, and the absolute reference when recorded
OrderedCandidates(tile, m) ==
    <<[dir |-> m.dir, name |-> tile.path.name]>>
    \o (IF "relative_to_root" \in tile.keys /\ "project_root" \in m.keys
        THEN <<[dir |-> m.project_root \o tile.relative_to_root.dir,
                name |-> tile.relative_to_root.name]>>
        ELSE <<>>)
    \o (IF "absolute" \in tile.keys THEN <<tile.absolute>> ELSE <<>>)

FirstExisting(cands, existing) ==
    LET hits == {i \in 1 .. Len(cands) : cands[i] \in existing}
    IN  IF hits = {}
        THEN NoRef
        ELSE cands[CHOOSE i \in hits : \A j \in hits : i <= j]

\* C7: every tile yielded was resolved to the first existing candidate in
\* the order manifest directory, project_root/relative_to_root, absolute
\* reference, and MissingTile is raised only for a tile none of whose
\* recorded candidates exists
C7_ResolutionTriesEveryCandidate ==
    /\ \A i \in 1 .. Len(resolved) :
          resolved[i] = FirstExisting(OrderedCandidates(manifest.tiles[i], manifest),
                                      DOMAIN files)
    /\ cpc = "MissingTile" =>
          FirstExisting(OrderedCandidates(manifest.tiles[idx], manifest), DOMAIN files)
              = NoRef

\* C8: a composition that meets an unresolvable tile ends in MissingTile at
\* that tile, whatever was pasted before, and has neither created the output
\* directory nor written output; a composition that saved its output resolved
\* every tile its rectangle needs
C8_MissingTileAbortsComposition ==
    /\ cpc = "MissingTile" =>
          /\ ~Resolve(manifest.tiles[idx], manifest, DOMAIN files).found
          /\ output = NoImage
          /\ ~out_dir
    /\ cpc = "saved" =>
          \A i \in 1 .. Len(manifest.tiles) :
              Overlaps(manifest.tiles[i], bounds_px) =>
                  Resolve(manifest.tiles[i], manifest, DOMAIN files).found
    /\ output # NoImage => cpc = "saved"

\* C8 witness: the composition was aborted after tiles had been pasted
C8_Witness ==
    /\ cpc = "MissingTile"
    /\ opened # {}
    /\ idx > 1
    /\ canvas # NewImage(canvas.w, canvas.h)

\* the requested box, corners ordered
ReqBox(req) ==
    [min_lat |-> Min(req[1], req[3]), max_lat |-> Max(req[1], req[3]),
     min_lon |-> Min(req[2], req[4]), max_lon |-> Max(req[2], req[4])]

BoxInsideExtent(box, lbl) ==
    /\ lbl.MINIMUM_LATITUDE <= box.min_lat /\ box.max_lat <= lbl.MAXIMUM_LATITUDE
    /\ lbl.WESTERNMOST_LONGITUDE <= box.min_lon /\ box.max_lon <= lbl.EASTERNMOST_LONGITUDE

\* the label gives the scene a geographic extent
HasExtent(lbl) == lbl.present /\ lbl.has_projection /\ ExtentKeys \subseteq lbl.keys

PositiveArea(box) == box.min_lat < box.max_lat /\ box.min_lon < box.max_lon

\* n is floor(num/den), resp. ceil(num/den), for den > 0
IsFloorOf(n, num, den) == n * den <= num /\ num < (n + 1) * den
IsCeilOf(n, num, den) == (n - 1) * den < num /\ num <= n * den

\* rect is the bounding-box linear mapping of box, rounded outward
IsLinearMapping(rect, box, lbl, W, H) ==
    LET lat_span == lbl.MAXIMUM_LATITUDE - lbl.MINIMUM_LATITUDE
        lon_span == lbl.EASTERNMOST_LONGITUDE - lbl.WESTERNMOST_LONGITUDE
    IN  /\ IsFloorOf(rect[1], (box.min_lon - lbl.WESTERNMOST_LONGITUDE) * W, lon_span)
        /\ IsCeilOf(rect[3], (box.max_lon - lbl.WESTERNMOST_LONGITUDE) * W, lon_span)
        /\ IsFloorOf(rect[2], (lbl.MAXIMUM_LATITUDE - box.max_lat) * H, lat_span)
        /\ IsCeilOf(rect[4], (lbl.MAXIMUM_LATITUDE - box.min_lat) * H, lat_span)

\* extent lat 10..20, lon 30..40 over 1000 x 1000, box (12, 32, 18, 38)
ExampleLabel ==
    [SceneLabel EXCEPT !.MINIMUM_LATITUDE = 10, !.MAXIMUM_LATITUDE = 20,
                       !.WESTERNMOST_LONGITUDE = 30, !.EASTERNMOST_LONGITUDE = 40]

ExampleCrop ==
    GeoToPixel(BuildManifest(DirUnderRoot, <<1000, 1000>>, 2048, <<>>, Root, ExampleLabel),
               <<12, 32, 18, 38>>)

CropComposing == op = "crop" /\ cpc \in {"loop", "saved"}

ClippedBox(box, lbl) ==
    [min_lat |-> Max(box.min_lat, lbl.MINIMUM_LATITUDE),
     max_lat |-> Min(box.max_lat, lbl.MAXIMUM_LATITUDE),
     min_lon |-> Max(box.min_lon, lbl.WESTERNMOST_LONGITUDE),
     max_lon |-> Min(box.max_lon, lbl.EASTERNMOST_LONGITUDE)]

PartlyOutside(req, lbl) ==
    /\ ~BoxInsideExtent(ReqBox(req), lbl)
    /\ PositiveArea(ClippedBox(ReqBox(req), lbl))

DisjointFromExtent(box, lbl) ==
    \/ box.max_lat < lbl.MINIMUM_LATITUDE
    \/ box.min_lat > lbl.MAXIMUM_LATITUDE
    \/ box.max_lon < lbl.WESTERNMOST_LONGITUDE
    \/ box.min_lon > lbl.EASTERNMOST_LONGITUDE

\* compose_region was not entered and nothing was read or written
NoCompositionIO ==
    /\ bounds_px = NoRequest
    /\ canvas = NoImage
    /\ probed = {}
    /\ opened = {}
    /\ resolved = <<>>
    /\ ~out_dir
    /\ output = NoImage

\* C11: a box that lies wholly outside the extent ends crop_by_latlon with
\* the OutOfBounds error before compose_region is called: no tile is read
\* and no output is written
C11_OutsideExtentIsOutOfBounds ==
    (op = "crop" /\ HasExtent(manifest.label_metadata)
        /\ DisjointFromExtent(ReqBox(latlon), manifest.label_metadata)) =>
        /\ cpc = "OutOfBounds"
        /\ NoCompositionIO

\* C11 witness: a box of positive area south of the extent was rejected
C11_Witness ==
    /\ op = "crop"
    /\ cpc = "OutOfBounds"
    /\ HasExtent(manifest.label_metadata)
    /\ PositiveArea(ReqBox(latlon))
    /\ ReqBox(latlon).max_lat < manifest.label_metadata.MINIMUM_LATITUDE

\* a scene 1000 pixels wide over 7 degrees: x(31) = 1000/7 and x(33) = 3000/7
ExampleOutward ==
    GeoToPixel(BuildManifest(DirUnderRoot, <<1000, 1000>>, 2048, <<>>, Root,
                             [ExampleLabel EXCEPT !.EASTERNMOST_LONGITUDE = 37]),
               <<10, 31, 20, 33>>)

C13_NoProjectionDisablesOnlyGeoCrop ==
    ~HasExtent(manifest.label_metadata) =>
        /\ op = "crop" => (cpc = "MissingProjectionMetadata" /\ NoCompositionIO)
        /\ op = "stitch" =>
              /\ cpc \in {"loop", "saved"}
              /\ cpc = "saved" => output = img
        /\ (op = "compose" /\ InsideMosaic(bounds_px)) =>
              /\ cpc \in {"loop", "saved"}
              /\ cpc = "saved" =>
                    output = Crop(img, <<bounds_px[1], bounds_px[2],
                                         bounds_px[3], bounds_px[4]>>)

\* C13 witness: a geographic crop was refused on a manifest whose projection
\* lacks the easternmost longitude
C13_Witness ==
    /\ op = "crop"
    /\ cpc = "MissingProjectionMetadata"
    /\ manifest.label_metadata = LabelLacking("EASTERNMOST_LONGITUDE")

\* C14: a manifest lacking image_size, tile_size or tiles is rejected before
\* any use on every path, the command line's and the service's: the request
\* ends with an error, no canvas is allocated, no tile is looked up or
\* opened and no output is written
C14_MalformedManifestRejectedOnEveryPath ==
    (manifest.exists /\ ~(RequiredKeys \subseteq manifest.keys) /\ op # "none") =>
        /\ cpc \in {"ManifestError", "KeyError"}
        /\ canvas = NoImage
        /\ probed = {}
        /\ opened = {}
        /\ ~out_dir
        /\ output = NoImage

\* C15: with tile_size <= 0 split_into_tiles ends with the ValueError and the
\* command line with exit status 1 before any work: no directory is created,
\* no converter is run, the source image is not opened, no tile file and no
\* manifest is written
C15_NonPositiveTileSizeRejectedFirst ==
    tile_size <= 0 =>
        /\ spc \in {"idle", "rejected"}
        /\ mpc \in {"none", "exit1"}
        /\ spc = "idle" \/ mpc = "none"
        /\ effects = {}
        /\ base_dir = <<>>
        /\ files = <<>>
        /\ tile_records = <<>>
        /\ ~manifest.exists

\* C15 witness: the command line was given a negative tile size and exited
C15_Witness ==
    /\ tile_size < 0
    /\ mpc = "exit1"

\* the tile files of the whole grid are in storage under dir
AllTilesSaved(m, storage) ==
    /\ Geometry(m.tiles) = RefGrid(img.w, img.h, tile_size)
    /\ \A i \in 1 .. Len(m.tiles) :
          /\ Join(m.dir, m.tiles[i].path) \in DOMAIN storage
          /\ storage[Join(m.dir, m.tiles[i].path)] =
                Crop(img, <<m.tiles[i].x, m.tiles[i].y,
                            m.tiles[i].x + m.tiles[i].width,
                            m.tiles[i].y + m.tiles[i].height>>)

\* C16: the manifest is written only when every tile of the scene has been
\* saved, and a run in which saving a tile failed writes no manifest
C16_ManifestWrittenAfterAllTiles ==
    /\ [](spc = "failed" => ~manifest.exists)
    /\ [][(manifest' # manifest) =>
             (spc = "returned" /\ manifest'.exists /\ AllTilesSaved(manifest', files))]_vars

\* C16 witness: saving a tile failed after other tiles had been written; the
\* tile files remain and there is no manifest
C16_Witness ==
    /\ spc = "failed"
    /\ count >= 1
    /\ DOMAIN files # {}
    /\ ~manifest.exists

\* C17: with the manifest and the tile files unchanged, a second call of
\* compose_region with the same rectangle saves the same raster as the
\* first, and no step of a composition changes the manifest or a tile file
C17_ComposeRegionIdempotent ==
    /\ []((cpc = "saved" /\ prev_output # NoImage) => output = prev_output)
    /\ [][(op' # "none") => (files' = files /\ manifest' = manifest)]_vars

\* C17 witness: the whole mosaic of several tiles was composed twice
C17_Witness ==
    /\ cpc = "saved"
    /\ prev_output # NoImage
    /\ bounds_px = <<0, 0, img.w, img.h>>
    /\ Cardinality(opened) >= 2

\* C18: two composition requests over the same manifest whose steps are
\* interleaved in any order each save the raster they save when run alone
C18_ConcurrentRequestsIndependent ==
    /\ cpc = "saved" => output = ComposeAlone(manifest, files, bounds_px)
    /\ other.cpc = "saved" =>
          other.output = ComposeAlone(manifest, files, other.bounds_px)

\* C18 witness: both requests were saved, the second for a proper part of the
\* scene that spans several tiles
C18_Witness ==
    /\ cpc = "saved"
    /\ other.cpc = "saved"
    /\ other.bounds_px # bounds_px
    /\ Cardinality(other.opened) >= 2
    /\ Cardinality(opened) > Cardinality(other.opened)

\* two tile records share a pixel that lies inside the rectangle
OverlapInside(t1, t2, rect) ==
    /\ Max(Max(t1.x, t2.x), rect[1]) <
          Min(Min(t1.x + t1.width, t2.x + t2.width), rect[3])
    /\ Max(Max(t1.y, t2.y), rect[2]) <
          Min(Min(t1.y + t1.height, t2.y + t2.height), rect[4])

\* C19: when two tile records of the manifest overlap inside the requested
\* rectangle, compose_region does not end by saving an output
C19_OverlappingTilesAreFlagged ==
    cpc = "saved" =>
        ~\E i, j \in 1 .. Len(manifest.tiles) :
            i < j /\ OverlapInside(manifest.tiles[i], manifest.tiles[j], bounds_px)

\* a longitude difference normalised into [-180, 180)
WrapDelta(d) == ((d + 180) % 360) - 180

\* sample and line of a geographic point under the offset/resolution
\* projection
SampleOf(lon, lbl) ==
    lbl.SAMPLE_PROJECTION_OFFSET + WrapDelta(lon - lbl.CENTER_LONGITUDE) * lbl.MAP_RESOLUTION
LineOf(lat, lbl) ==
    lbl.LINE_PROJECTION_OFFSET - (lat - lbl.CENTER_LATITUDE) * lbl.MAP_RESOLUTION

\* the axis-aligned rectangle enclosing the images of the box's four corners
EnclosingRect(box, lbl) ==
    LET samples == {SampleOf(lon, lbl) : lon \in {box.min_lon, box.max_lon}}
        lines == {LineOf(lat, lbl) : lat \in {box.min_lat, box.max_lat}}
        Least(S) == CHOOSE v \in S : \A u \in S : v <= u
        Greatest(S) == CHOOSE v \in S : \A u \in S : v >= u
    IN  <<Least(samples), Least(lines), Greatest(samples), Greatest(lines)>>

\* C20: for a manifest whose projection carries the sample and line offsets,
\* the centre and the map resolution (and no extent), a geographic crop does
\* not end with MissingProjectionMetadata, and the rectangle it composes is
\* the rectangle enclosing the four corners under sample = sample_offset +
\* wrap(lon - center_lon) * resolution, line = line_offset - (lat -
\* center_lat) * resolution
C20_OffsetResolutionStrategy ==
    (op = "crop" /\ manifest.label_metadata.has_projection
        /\ OffsetKeys \subseteq manifest.label_metadata.keys
        /\ ~HasExtent(manifest.label_metadata)) =>
        /\ cpc # "MissingProjectionMetadata"
        /\ CropComposing =>
              bounds_px = EnclosingRect(ReqBox(latlon), manifest.label_metadata)

\* position of a converter in CONVERTERS
PriorityIndex(name) == CHOOSE i \in 1 .. Len(Converters) : Converters[i] = name

\* every converter tried for the current file returned "error"
AllTriesFailed(c) ==
    /\ Len(c.tries) = Len(c.converters)
    /\ \A i \in 1 .. Len(c.tries) : c.tries[i][2] = "error"

\* C22: the converters are attempted in the fixed priority order ffmpeg,
\* gdal_translate, magick, convert; the attempts for a file stop at the first
\* "ok" or "skip"; a file is counted as failed exactly when every converter
\* returned "error"; every file is counted once as converted, skipped or
\* failed; the exit code is 0 when nothing failed and 2 otherwise
C22_ConverterFallback ==
    /\ [](conv.pc \in {"loop", "done"} =>
            /\ \A i, j \in 1 .. Len(conv.converters) :
                  i < j => PriorityIndex(conv.converters[i]) < PriorityIndex(conv.converters[j])
            /\ \A i \in 1 .. Len(conv.tries) : conv.tries[i][1] = conv.converters[i]
            /\ \A i \in 1 .. Len(conv.tries) - 1 : conv.tries[i][2] = "error"
            /\ conv.converted + conv.skipped + conv.failed = conv.f - 1
            /\ conv.pc = "done" =>
                  /\ conv.converted + conv.skipped + conv.failed = conv.n
                  /\ conv.exit = IF conv.failed = 0 THEN 0 ELSE 2)
    /\ [][conv.pc = "loop" /\ conv'.f = conv.f + 1 =>
            /\ conv'.failed = conv.failed + 1 <=> AllTriesFailed(conv)
            /\ conv'.failed = conv.failed <=>
                  (conv.tries # <<>> /\ conv.tries[Len(conv.tries)][2] \in {"ok", "skip"})
            /\ conv'.converted = conv.converted + 1 <=>
                  (conv.tries # <<>> /\ conv.tries[Len(conv.tries)][2] = "ok")]_vars

\* C22 witness: a run with at least two converters over two files, one of
\* them converted and the other failed with every converter, has ended
\* with exit code 2
C22_Witness ==
    /\ conv.pc = "done"
    /\ conv.exit = 2
    /\ conv.converted >= 1
    /\ conv.failed >= 1
    /\ Len(conv.converters) >= 2

\* C27: without --force a file is reported "skip" only if its destination
\* existed before the first converter was attempted for it in this run
C27_SkipOnlyForPreexistingDestination ==
    (conv.pc = "loop" /\ conv.status = "skip" /\ ~conv.force) => conv.had_dst

\* lexicographic order of two names (sequences of character codes)
RECURSIVE LexLess(_, _)
LexLess(s, t) ==
    IF s = <<>> THEN t # <<>>
    ELSE IF t = <<>> THEN FALSE
    ELSE IF Head(s) # Head(t) THEN Head(s) < Head(t)
    ELSE LexLess(Tail(s), Tail(t))

\* C21: tile names are an injective function of (row, col), zero-padded to a
\* fixed width, and their lexicographic order is the row-major order in which
\* the splitter writes the tiles: the name of each tile differs from and sorts
\* after the name of the tile written before it, and has the same length
C21_NamesSortInRowMajorOrder ==
    (spc \in {"loop", "returned"} /\ Len(tile_records) >= 2) =>
        LET n == Len(tile_records)
            prev == tile_records[n - 1].path.name
            last == tile_records[n].path.name
        IN  /\ prev # last
            /\ Len(prev) = Len(last)
            /\ LexLess(prev, last)

\* C23: whenever crop_by_latlon reaches compose_region the rectangle satisfies
\* 0 <= left < right <= width and 0 <= top < bottom <= height, and the check
\* "Requested bounds yield an empty region" of crop_by_latlon never fires
C23_CropRectangleNeverEmpty ==
    (op = "crop" /\ HasExtent(manifest.label_metadata)) =>
        /\ cpc # "EmptyRegion"
        /\ CropComposing =>
              /\ 0 <= bounds_px[1] /\ bounds_px[1] < bounds_px[3]
              /\ bounds_px[3] <= manifest.image_size.width
              /\ 0 <= bounds_px[2] /\ bounds_px[2] < bounds_px[4]
              /\ bounds_px[4] <= manifest.image_size.height

\* the rectangle has positive extent and reaches beyond the mosaic
BeyondMosaic(rect) ==
    /\ rect[1] < rect[3] /\ rect[2] < rect[4]
    /\ rect[1] < 0 \/ rect[2] < 0 \/ rect[3] > img.w \/ rect[4] > img.h

\* C24: with every tile in place, compose_region on a rectangle that extends
\* beyond the mosaic raises no error; the raster it saves has size
\* (right-left) x (bottom-top), each pixel whose source coordinate lies in
\* the mosaic equals the source pixel and every other pixel holds the
\* default background value 0
C24_BeyondMosaicIsPadded ==
    (op = "compose" /\ BeyondMosaic(bounds_px) /\ MissingTiles = {}) =>
        /\ cpc \in {"loop", "saved"}
        /\ cpc = "saved" =>
              /\ output.w = bounds_px[3] - bounds_px[1]
              /\ output.h = bounds_px[4] - bounds_px[2]
              /\ DOMAIN output.px = Coords(output.w, output.h)
              /\ \A p \in Coords(output.w, output.h) :
                    LET src == <<bounds_px[1] + p[1], bounds_px[2] + p[2]>>
                    IN  output.px[p] = IF src \in Coords(img.w, img.h)
                                       THEN img.px[src] ELSE 0

\* C24 witness: a rectangle reaching one pixel beyond the mosaic on every
\* side was composed from several tiles
C24_Witness ==
    /\ op = "compose"
    /\ cpc = "saved"
    /\ bounds_px = <<-1, -1, img.w + 1, img.h + 1>>
    /\ Cardinality(opened) >= 2
    /\ output.px[<<0, 0>>] = 0
    /\ output.px[<<1, 1>>] = img.px[<<0, 0>>]

\* the tiles of the manifest that intersect the requested rectangle
NeededTiles ==
    {i \in 1 .. Len(manifest.tiles) : ~Skipped(Intersection(bounds_px, manifest.tiles[i]))}

\* C25: the outcome of compose_region depends only on the tiles intersecting
\* the rectangle: when every intersecting tile resolves to an existing file
\* the composition does not end with MissingTile, even if a tile that does
\* not intersect the rectangle is missing
C25_OnlyNeededTilesMatter ==
    (op = "compose" /\ ~IsEmptyRegion(bounds_px[1], bounds_px[2], bounds_px[3], bounds_px[4])
        /\ NeededTiles \cap MissingTiles = {}) =>
        cpc # "MissingTile"

\* the tile file a record of the manifest names, relative to the manifest
ListedFile(tile) == Join(manifest.dir, tile.path)

\* C26: over any sequence of converter runs on the same scene and tile
\* directory, whenever metadata.json exists every tile it lists exists on
\* disk with exactly the recorded width and height
C26_ManifestMatchesTilesOnDisk ==
    manifest.exists =>
        \A i \in 1 .. Len(manifest.tiles) :
            LET tile == manifest.tiles[i]
            IN  /\ ListedFile(tile) \in DOMAIN files
                /\ files[ListedFile(tile)].w = tile.width
                /\ files[ListedFile(tile)].h = tile.height

\* process p was spawned by an invocation of start_service that has returned
StartedAndReturned(p) ==
    \E i \in DOMAIN sup.inv :
        sup.inv[i].kind = "start" /\ sup.inv[i].pc = "done" /\ sup.inv[i].pid = p

\* C28: for every interleaving of start_service and stop_service on one
\* service, at most one spawned process is alive, and a process that is alive
\* after the start_service that spawned it returned is named by the PID file
C28_SupervisorMutualExclusion ==
    /\ Cardinality(sup.live) <= 1
    /\ \A p \in sup.live : StartedAndReturned(p) => sup.pid_file = p

\* C29: the temporary output file of crop_scene and download_full is released
\* on every exit path: when the handler has ended with an error the file is
\* not there any more, and when it has ended with success the deletion of
\* the file is scheduled (or has been carried out)
C29_TempFileReleased ==
    handler.pc \in {"returned", "cleaned"} =>
        IF handler.response = 200
        THEN handler.temp \in {"scheduled", "deleted"}
        ELSE handler.temp \in {"none", "deleted"}

\* C30: once an /init has produced a manifest with tiles, every later /init
\* with force = false on the unchanged data returns "skipped" and does not
\* run the converter, whether or not the scene has label metadata
C30_InitIdempotentWhenNotForced ==
    [][(/\ init_call'.calls = init_call.calls + 1
        /\ ~init_call'.force
        /\ manifest.exists
        /\ manifest.tiles # <<>>) =>
           /\ init_call'.status = "skipped"
           /\ init_call'.runs = init_call.runs]_vars

====
